---- MODULE Spec2Model ----
(***************************************************************************)
(* Model of the AnaFis inter-tab data bus (anafis/gui/shared/data_bus.py)  *)
(* and of the message utilities it calls (data_transforms.py), and of the  *)
(* window shell: the tab strips of the main window and of the detached     *)
(* windows, with the drag of a tab (anafis/gui/shell/detachable_tab.py,    *)
(* notebook.py, drag_and_drop/).                                           *)
(*                                                                         *)
(* Python dicts keep insertion order; a dict is modelled as a sequence of  *)
(* [key, value] records in insertion order.  Strings are TLA+ strings.     *)
(* Every public method of DataBus is one action; the action records, in    *)
(* the observation variable `last`, what the caller can see of the call:   *)
(* its name and arguments, its return value, the callbacks that were       *)
(* invoked and the transmission_error / data_received signals emitted.     *)
(***************************************************************************)
EXTENDS Integers, Sequences, FiniteSets, TLC

(***************************************************************************)
(* Bounds of the model.                                                    *)
(***************************************************************************)
\* number of calls made on the bus in one run
MaxCalls == 5
\* the max_message_history the bus is configured with.  The attribute
\* defaults to 100 (data_bus.py:66) and is set by its users
\* (test_data_bus.py:384 sets 2); the model configures a small capacity so
\* that runs of MaxCalls calls fill the history and evict from it.
MaxCapacity == 2
\* number of calls made on the bus in one run of the routing specification:
\* three registrations, two subscriptions, a re-registration and a publish
MaxRoutingCalls == 7
\* number of tabs created in one run of the shell, besides the Home tab
MaxTabs == 2
\* number of detached windows created in one run of the shell
MaxWindows == 1
\* the same in the runs where a tab is detached from a detached window, or
\* dragged while another window is open
MaxNestedWindows == 2
\* the seconds that pass while the tabs are created
MaxSeconds == 1

(***************************************************************************)
(* Inputs the callers draw from.                                           *)
(***************************************************************************)
TabIds == {"a", "b"}
\* (tab_type, callback) pairs a tab registers with; a callback is absent
\* ("None"), returns normally ("ok") or raises ("raises")
Registrations ==
    {<<"spreadsheet", "ok">>, <<"fitting", "None">>, <<"fitting", "raises">>}
DataTypes == {"dataframe", "test"}
\* (data_type, payload) pairs; a payload is given by its Python type.  A
\* "dataframe" payload that is a str fails validation.
Publications ==
    {<<"dataframe", [py_type |-> "dict"]>>,
     <<"dataframe", [py_type |-> "str"]>>,
     <<"test", [py_type |-> "str"]>>}
\* (filter_id, predicate) pairs; "a_f" is namespaced to tab "a", "g" to no
\* tab; a predicate passes everything, blocks everything, or raises
FilterIds == {"a_f", "g"}
Filters == {<<"a_f", "block">>, <<"g", "pass">>, <<"g", "raises">>}
\* the inputs of the routing specification: three tabs, each of which can
\* be the source or a recipient of a "test" message; the callback of "b"
\* raises, the callbacks of "a" and "c" return
RoutingTabIds == {"a", "b", "c"}
RoutingRegistrations ==
    {<<"a", "spreadsheet", "ok">>, <<"b", "fitting", "raises">>,
     <<"c", "spreadsheet", "ok">>}
RoutingPublication == <<"test", [py_type |-> "str"]>>

VARIABLES
    is_active,            \* DataBus.is_active
    registered_tabs,      \* DataBus.registered_tabs: tab_id -> TabRegistration
    subscription_map,     \* DataBus.subscription_map: tab_id -> [data_types]
    data_filters,         \* DataBus.data_filters: filter_id -> predicate
    max_message_history,  \* DataBus.max_message_history
    message_history,      \* DataBus.message_history
    now,                  \* the clock create_data_message reads
    calls,                \* observation: number of calls made so far
    accepted,             \* observation: timestamps of the publishes accepted
                          \* since the history was last cleared
    last,                 \* observation: the last call and what it showed
    handle_order,         \* observation: the registered ids, in the order in
                          \* which their current handles were registered
    tab_widgets,          \* the DetachableTabWidget of every window, with
                          \* the current_drag of its EnhancedTabBar
    windows,              \* the DetachedWindow objects
    window_hierarchy,     \* the WindowHierarchy singleton
    active_drag,          \* GlobalDragManager.active_drag
    created_tabs,         \* number of tab widgets created so far
    pointer,              \* the mouse: buttons held, the tab bar that has
                          \* the grab, and where the pointer is
    event,                \* observation: the last event of the shell
    app,                  \* the QApplication: whether quit() was called, and
                          \* observation: the steps of the shutdown so far
    notebook              \* the Notebook: its _tab_id_counter, the second
                          \* time.time() reads, and the tab widgets created
                          \* so far, page by page, with their tab_id

vars == <<is_active, registered_tabs, subscription_map, data_filters,
          max_message_history, message_history, now, calls, accepted, last,
          handle_order, tab_widgets, windows, window_hierarchy, active_drag,
          created_tabs, pointer, event, app, notebook>>

bus == <<is_active, registered_tabs, subscription_map, data_filters,
         max_message_history, message_history>>

\* the variables of the data bus and of its observation
bus_side == <<bus, now, calls, accepted, last, handle_order>>

\* the variables of the shell and of its observation
shell_side == <<tab_widgets, windows, window_hierarchy, active_drag,
                created_tabs, pointer, event, app, notebook>>

(***************************************************************************)
(* Python dict and list primitives.                                        *)
(***************************************************************************)
DictKeys(d) == {d[i].key : i \in DOMAIN d}

DictHas(d, k) == k \in DictKeys(d)

DictIndex(d, k) == CHOOSE i \in DOMAIN d : d[i].key = k

DictGet(d, k) == d[DictIndex(d, k)].value

\* d[k] = v: an existing key keeps its position, a new key goes last
DictSet(d, k, v) ==
    IF DictHas(d, k)
    THEN [d EXCEPT ![DictIndex(d, k)] = [key |-> k, value |-> v]]
    ELSE Append(d, [key |-> k, value |-> v])

\* del d[k]
DictDel(d, k) == SelectSeq(d, LAMBDA e : e.key # k)

\* x in list
ListHas(l, x) == \E i \in DOMAIN l : l[i] = x

\* list.remove(x): removes the first occurrence
ListRemove(l, x) ==
    LET i == CHOOSE j \in DOMAIN l : l[j] = x /\ \A h \in 1..(j - 1) : l[h] # x
    IN  SubSeq(l, 1, i - 1) \o SubSeq(l, i + 1, Len(l))

\* str.startswith
StartsWith(s, prefix) ==
    Len(s) >= Len(prefix) /\ SubSeq(s, 1, Len(prefix)) = prefix

(***************************************************************************)
(* TabRegistration: the handle the bus keeps per registered tab.           *)
(***************************************************************************)
TabRegistration(tab_id, tab_type, callback) ==
    [tab_id |-> tab_id, tab_type |-> tab_type, callback |-> callback,
     is_active |-> TRUE, message_count |-> 0, last_activity |-> <<>>]

(***************************************************************************)
(* data_transforms.py                                                      *)
(***************************************************************************)
create_data_message(source_tab_id, source_tab_type, data_type, data, timestamp) ==
    [source_tab_id |-> source_tab_id,
     source_tab_type |-> source_tab_type,
     data_type |-> data_type,
     data |-> data,
     metadata |-> <<>>,
     timestamp |-> timestamp,
     version |-> "1.0"]

required_fields ==
    <<"source_tab_id", "source_tab_type", "data_type", "data", "timestamp", "version">>

\* variant: the payload checks per data type are missing
validate_data_message_SkipsPayload(message) ==
    SelectSeq(required_fields, LAMBDA f : f \notin DOMAIN message)

\* the list of errors validate_data_message collects; valid iff it is empty
validate_data_message(message) ==
    LET missing == SelectSeq(required_fields, LAMBDA f : f \notin DOMAIN message)
        e1 == IF "source_tab_id" \in DOMAIN message /\ message.source_tab_id \notin STRING
              THEN <<"source_tab_id must be a string">> ELSE <<>>
        e2 == IF "source_tab_type" \in DOMAIN message /\ message.source_tab_type \notin STRING
              THEN <<"source_tab_type must be a string">> ELSE <<>>
        e3 == IF "data_type" \in DOMAIN message /\ message.data_type \notin STRING
              THEN <<"data_type must be a string">> ELSE <<>>
        e4 == IF "timestamp" \in DOMAIN message /\ message.timestamp \notin Nat
              THEN <<"Invalid timestamp format">> ELSE <<>>
        e5 == IF "data" \in DOMAIN message /\ "data_type" \in DOMAIN message
              THEN IF message.data_type = "dataframe" /\ message.data.py_type # "dict"
                   THEN <<"DataFrame data must be a dictionary">>
                   ELSE IF message.data_type = "numpy_array" /\ message.data.py_type # "dict"
                   THEN <<"NumPy array data must be a dictionary">>
                   ELSE IF message.data_type = "parameters" /\ message.data.py_type # "dict"
                   THEN <<"Parameters data must be a dictionary">>
                   ELSE <<>>
              ELSE <<>>
    IN  missing \o e1 \o e2 \o e3 \o e4 \o e5

(***************************************************************************)
(* Observation record of one call.                                         *)
(***************************************************************************)
\* op, id, arg, extra: the method and its arguments; ret: the value returned
\* ("True", "False", "None"); invoked: the callbacks called, in order, each
\* with the message it was given; received / errors: the tab ids of the
\* data_received / transmission_error signals emitted; filters_run: the
\* filters publish_data called; filters_removed: the filter keys
\* unregister_tab deleted; uncaught: whether an exception left the routing
\* slot
Seen(op, id, arg, extra, ret) ==
    [op |-> op, id |-> id, arg |-> arg, extra |-> extra, ret |-> ret,
     invoked |-> <<>>, received |-> <<>>, errors |-> <<>>,
     filters_run |-> <<>>, filters_removed |-> <<>>, uncaught |-> FALSE]

(***************************************************************************)
(* The objects of the shell.  A tab strip is named by a number: Main is    *)
(* the DetachableTabWidget of the Notebook (Notebook.tabs), w in WindowIds *)
(* that of the w-th DetachedWindow created (its internal_tab_widget).  A   *)
(* page is named by a number too: Home is the HomeMenuWidget, n > 0 the    *)
(* n-th tab created.  An Optional attribute is <<>> (None) or <<value>>.   *)
(***************************************************************************)
Main == 0
Home == 0
WindowIds == DOMAIN windows
Strips == DOMAIN tab_widgets

\* DetachableTabWidget.__init__, with the EnhancedTabBar it installs: pages
\* are the widgets of its tabs, in the order of the tab bar; preview_shown
\* tells whether a DragPreviewWidget of its tab bar is on screen
DetachableTabWidget ==
    [pages |-> <<>>,
     detached_windows |-> <<>>,
     external_drag_mode |-> FALSE,
     current_external_drag |-> <<>>,
     current_drag |-> <<>>,
     preview_shown |-> FALSE]

\* DragOperation as mousePressEvent builds it (drag_preview: whether the
\* preview widget exists)
DragOperation(source_tab_index, source_widget, dragged_widget) ==
    [source_tab_index |-> source_tab_index,
     source_widget |-> source_widget,
     dragged_widget |-> dragged_widget,
     drag_preview |-> FALSE,
     current_state |-> "PREPARING"]

\* a DetachedWindow that has not been created yet
NoWindow ==
    [exists |-> FALSE, visible |-> FALSE, parent_tab_widget |-> <<>>,
     hierarchy_manager |-> FALSE, window_closed |-> <<>>]

\* DetachedWindow.__init__: window_closed holds the tab strips whose
\* on_detached_window_closed is connected to the signal; hierarchy_manager
\* tells whether the WindowHierarchy registered the window, which connects
\* its own on_detached_window_closed first
DetachedWindow(parent_tab_widget) ==
    [exists |-> TRUE, visible |-> FALSE, parent_tab_widget |-> <<parent_tab_widget>>,
     hierarchy_manager |-> FALSE, window_closed |-> <<>>]

\* the observation of an event of the shell: the handler, the strip or
\* window it ran on, and the states the drag of that strip went through
\* while it ran ("NONE" when the strip has no DragOperation); raised tells
\* that an exception was caught while it ran
Shown(op, strip, states) ==
    [op |-> op, strip |-> strip, states |-> states, raised |-> FALSE]

InitWith(max_windows) ==
    /\ is_active = TRUE
    /\ registered_tabs = <<>>
    /\ subscription_map = <<>>
    /\ data_filters = <<>>
    /\ max_message_history = MaxCapacity
    /\ message_history = <<>>
    /\ now = 0
    /\ calls = 0
    /\ accepted = <<>>
    /\ last = Seen("__init__", "", "", "", "None")
    /\ handle_order = <<>>
    /\ tab_widgets = [strip \in {Main} \cup 1..max_windows |->
                        IF strip = Main
                        THEN [DetachableTabWidget EXCEPT !.pages = <<Home>>]
                        ELSE DetachableTabWidget]
    /\ windows = [w \in 1..max_windows |-> NoWindow]
    /\ window_hierarchy = [main_window |-> <<Main>>, detached_windows |-> <<>>,
                           shutdown_in_progress |-> FALSE]
    /\ active_drag = <<>>
    /\ created_tabs = 0
    /\ pointer = [left |-> FALSE, right |-> FALSE, grab |-> <<>>,
                  within |-> TRUE, slot |-> 0, over |-> <<>>]
    /\ event = Shown("__init__", Main, <<>>)
    /\ app = [quit |-> FALSE, log |-> <<>>, file |-> <<>>, exited |-> FALSE]
    /\ notebook = [tab_id_counter |-> 1, time |-> 0, widgets |-> <<>>]

Init == InitWith(MaxWindows)

(***************************************************************************)
(* DataBus.register_tab                                                    *)
(***************************************************************************)
\* variant: the is_active test is missing
register_tab_NoActiveCheck(tab_id, tab_type, callback) ==
    /\ registered_tabs' =
           DictSet(registered_tabs, tab_id, TabRegistration(tab_id, tab_type, callback))
    /\ subscription_map' =
           IF ~DictHas(subscription_map, tab_id)
           THEN DictSet(subscription_map, tab_id, <<>>)
           ELSE subscription_map
    /\ last' = Seen("register_tab", tab_id, tab_type, callback, "True")
    /\ UNCHANGED <<is_active, data_filters, max_message_history,
                   message_history, now, accepted>>

\* variant: the subscription list is initialised on every registration
register_tab_ResetsSubscriptions(tab_id, tab_type, callback) ==
    IF ~is_active
    THEN /\ last' = Seen("register_tab", tab_id, tab_type, callback, "False")
         /\ UNCHANGED <<bus, now, accepted>>
    ELSE /\ registered_tabs' =
                DictSet(registered_tabs, tab_id, TabRegistration(tab_id, tab_type, callback))
         /\ subscription_map' = DictSet(subscription_map, tab_id, <<>>)
         /\ last' = Seen("register_tab", tab_id, tab_type, callback, "True")
         /\ UNCHANGED <<is_active, data_filters, max_message_history,
                        message_history, now, accepted>>

register_tab(tab_id, tab_type, callback) ==
    IF ~is_active
    THEN /\ last' = Seen("register_tab", tab_id, tab_type, callback, "False")
         /\ UNCHANGED <<bus, now, accepted>>
    ELSE /\ registered_tabs' =
                DictSet(registered_tabs, tab_id, TabRegistration(tab_id, tab_type, callback))
         /\ subscription_map' =
                IF ~DictHas(subscription_map, tab_id)
                THEN DictSet(subscription_map, tab_id, <<>>)
                ELSE subscription_map
         /\ last' = Seen("register_tab", tab_id, tab_type, callback, "True")
         /\ UNCHANGED <<is_active, data_filters, max_message_history,
                        message_history, now, accepted>>

(***************************************************************************)
(* DataBus.unregister_tab                                                  *)
(***************************************************************************)
\* the keys of the filters namespaced to tab_id
filter_keys_to_remove(tab_id) ==
    {k \in DictKeys(data_filters) : StartsWith(k, tab_id \o "_")}

\* variant: the handle is not deleted
unregister_tab_KeepsHandle(tab_id) ==
    IF ~DictHas(registered_tabs, tab_id)
    THEN /\ last' = Seen("unregister_tab", tab_id, "", "", "False")
         /\ UNCHANGED <<bus, now, accepted>>
    ELSE /\ subscription_map' = DictDel(subscription_map, tab_id)
         /\ data_filters' =
                SelectSeq(data_filters, LAMBDA e : e.key \notin filter_keys_to_remove(tab_id))
         /\ last' = Seen("unregister_tab", tab_id, "", "", "True")
         /\ UNCHANGED <<is_active, registered_tabs, max_message_history,
                        message_history, now, accepted>>

\* variant: the subscription entry is not deleted
unregister_tab_KeepsSubscriptions(tab_id) ==
    IF ~DictHas(registered_tabs, tab_id)
    THEN /\ last' = Seen("unregister_tab", tab_id, "", "", "False")
         /\ UNCHANGED <<bus, now, accepted>>
    ELSE /\ registered_tabs' = DictDel(registered_tabs, tab_id)
         /\ data_filters' =
                SelectSeq(data_filters, LAMBDA e : e.key \notin filter_keys_to_remove(tab_id))
         /\ last' = Seen("unregister_tab", tab_id, "", "", "True")
         /\ UNCHANGED <<is_active, subscription_map, max_message_history,
                        message_history, now, accepted>>

unregister_tab(tab_id) ==
    IF ~DictHas(registered_tabs, tab_id)
    THEN /\ last' = Seen("unregister_tab", tab_id, "", "", "False")
         /\ UNCHANGED <<bus, now, accepted>>
    ELSE /\ registered_tabs' = DictDel(registered_tabs, tab_id)
         /\ subscription_map' =
                IF DictHas(subscription_map, tab_id)
                THEN DictDel(subscription_map, tab_id)
                ELSE subscription_map
         /\ data_filters' =
                SelectSeq(data_filters, LAMBDA e : e.key \notin filter_keys_to_remove(tab_id))
         /\ last' = [Seen("unregister_tab", tab_id, "", "", "True")
                       EXCEPT !.filters_removed =
                           SelectSeq([i \in DOMAIN data_filters |-> data_filters[i].key],
                                     LAMBDA k : k \in filter_keys_to_remove(tab_id))]
         /\ UNCHANGED <<is_active, max_message_history, message_history, now, accepted>>

(***************************************************************************)
(* DataBus.subscribe_to_data_type / unsubscribe_from_data_type             *)
(***************************************************************************)
\* variant: the data type is appended without the membership test
subscribe_to_data_type_AllowsDuplicates(tab_id, data_type) ==
    IF ~DictHas(registered_tabs, tab_id)
    THEN /\ last' = Seen("subscribe_to_data_type", tab_id, data_type, "", "False")
         /\ UNCHANGED <<bus, now, accepted>>
    ELSE /\ subscription_map' =
                DictSet(subscription_map, tab_id,
                        Append(DictGet(subscription_map, tab_id), data_type))
         /\ last' = Seen("subscribe_to_data_type", tab_id, data_type, "", "True")
         /\ UNCHANGED <<is_active, registered_tabs, data_filters,
                        max_message_history, message_history, now, accepted>>

subscribe_to_data_type(tab_id, data_type) ==
    IF ~DictHas(registered_tabs, tab_id)
    THEN /\ last' = Seen("subscribe_to_data_type", tab_id, data_type, "", "False")
         /\ UNCHANGED <<bus, now, accepted>>
    ELSE LET map == IF ~DictHas(subscription_map, tab_id)
                    THEN DictSet(subscription_map, tab_id, <<>>)
                    ELSE subscription_map
         IN  IF ~ListHas(DictGet(map, tab_id), data_type)
             THEN /\ subscription_map' =
                        DictSet(map, tab_id, Append(DictGet(map, tab_id), data_type))
                  /\ last' = Seen("subscribe_to_data_type", tab_id, data_type, "", "True")
                  /\ UNCHANGED <<is_active, registered_tabs, data_filters,
                                 max_message_history, message_history, now, accepted>>
             ELSE /\ subscription_map' = map
                  /\ last' = Seen("subscribe_to_data_type", tab_id, data_type, "", "False")
                  /\ UNCHANGED <<is_active, registered_tabs, data_filters,
                                 max_message_history, message_history, now, accepted>>

unsubscribe_from_data_type(tab_id, data_type) ==
    IF ~DictHas(subscription_map, tab_id)
    THEN /\ last' = Seen("unsubscribe_from_data_type", tab_id, data_type, "", "False")
         /\ UNCHANGED <<bus, now, accepted>>
    ELSE IF ListHas(DictGet(subscription_map, tab_id), data_type)
         THEN /\ subscription_map' =
                    DictSet(subscription_map, tab_id,
                            ListRemove(DictGet(subscription_map, tab_id), data_type))
              /\ last' = Seen("unsubscribe_from_data_type", tab_id, data_type, "", "True")
              /\ UNCHANGED <<is_active, registered_tabs, data_filters,
                             max_message_history, message_history, now, accepted>>
         ELSE /\ last' = Seen("unsubscribe_from_data_type", tab_id, data_type, "", "False")
              /\ UNCHANGED <<bus, now, accepted>>

(***************************************************************************)
(* DataBus.add_data_filter / remove_data_filter                            *)
(***************************************************************************)
add_data_filter(filter_id, filter_func) ==
    /\ data_filters' = DictSet(data_filters, filter_id, filter_func)
    /\ last' = Seen("add_data_filter", filter_id, filter_func, "", "None")
    /\ UNCHANGED <<is_active, registered_tabs, subscription_map,
                   max_message_history, message_history, now, accepted>>

remove_data_filter(filter_id) ==
    IF DictHas(data_filters, filter_id)
    THEN /\ data_filters' = DictDel(data_filters, filter_id)
         /\ last' = Seen("remove_data_filter", filter_id, "", "", "True")
         /\ UNCHANGED <<is_active, registered_tabs, subscription_map,
                        max_message_history, message_history, now, accepted>>
    ELSE /\ last' = Seen("remove_data_filter", filter_id, "", "", "False")
         /\ UNCHANGED <<bus, now, accepted>>

(***************************************************************************)
(* DataBus.publish_data and the routing slot _handle_data_published        *)
(***************************************************************************)
\* what calling a filter predicate does: "True", "False" or "raise"
filter_func_call(filter_func, message) ==
    CASE filter_func = "pass"   -> "True"
      [] filter_func = "block"  -> "False"
      [] filter_func = "raises" -> "raise"

\* variant: the value a filter returns is ignored
apply_filters_IgnoresResult(filters, message, i, run) ==
    [passed |-> TRUE, run |-> [j \in DOMAIN filters |-> filters[j].key]]

\* variant: every filter is called, also after one has returned False
apply_filters_NoShortCircuit(filters, message, i, run) ==
    [passed |-> \A j \in DOMAIN filters :
                   filter_func_call(filters[j].value, message) # "False",
     run |-> [j \in DOMAIN filters |-> filters[j].key]]

\* the filter loop of publish_data from the i-th filter on: the filters
\* called so far (run) and whether the message got through
RECURSIVE apply_filters(_, _, _, _)
apply_filters(filters, message, i, run) ==
    IF i > Len(filters)
    THEN [passed |-> TRUE, run |-> run]
    ELSE IF filter_func_call(filters[i].value, message) = "False"
         THEN [passed |-> FALSE, run |-> Append(run, filters[i].key)]
         ELSE apply_filters(filters, message, i + 1, Append(run, filters[i].key))

\* variant: the test that skips the publishing tab is missing
is_recipient_EchoesToSource(message, tabs, tab_id, subscriptions) ==
    /\ ListHas(subscriptions, message.data_type)
    /\ DictHas(tabs, tab_id)
    /\ DictGet(tabs, tab_id).is_active

\* variant: the subscription test is missing
is_recipient_IgnoresSubscription(message, tabs, tab_id, subscriptions) ==
    /\ tab_id # message.source_tab_id
    /\ DictHas(tabs, tab_id)
    /\ DictGet(tabs, tab_id).is_active

\* the four tests of the routing loop: the entry's tab gets the message
\* unless it is the source, is not subscribed to the data type, is no
\* longer registered, or its handle is inactive
is_recipient(message, tabs, tab_id, subscriptions) ==
    /\ tab_id # message.source_tab_id
    /\ ListHas(subscriptions, message.data_type)
    /\ DictHas(tabs, tab_id)
    /\ DictGet(tabs, tab_id).is_active

\* the routing slot at work: the registry, the subscription map and the
\* filters as they are now (a callback may call the bus), and what the call
\* has shown so far
Routing(tabs, map, filters, out) ==
    [tabs |-> tabs, map |-> map, filters |-> filters, out |-> out]

\* the id of the tab a callback of the kind "registers" registers
NewTabId == "n"

\* DataBus.register_tab called from a callback, while the bus is active
register_tab_within(run, tab_id, tab_type, callback) ==
    [run EXCEPT !.tabs = DictSet(@, tab_id, TabRegistration(tab_id, tab_type, callback)),
                !.map = IF ~DictHas(@, tab_id) THEN DictSet(@, tab_id, <<>>) ELSE @]

\* DataBus.unregister_tab called from a callback
unregister_tab_within(run, tab_id) ==
    IF ~DictHas(run.tabs, tab_id)
    THEN run
    ELSE [run EXCEPT !.tabs = DictDel(@, tab_id),
                     !.map = IF DictHas(@, tab_id) THEN DictDel(@, tab_id) ELSE @,
                     !.filters = SelectSeq(@, LAMBDA e :
                                     ~(StartsWith(e.key, tab_id \o "_")))]

\* the delivery to one recipient: its callback, if any, is called; if the
\* call returns, data_received is emitted, if it raises, transmission_error.
\* A callback returns ("ok"), raises ("raises"), unregisters its own tab and
\* returns ("unregisters"), or registers a new tab and returns ("registers")
deliver(message, run, tab_id) ==
    LET callback == DictGet(run.tabs, tab_id).callback
        call == [tab_id |-> tab_id, message |-> message]
    IN  CASE callback = "None" ->
               [run EXCEPT !.out.received = Append(@, tab_id)]
          [] callback = "ok" ->
               [run EXCEPT !.out.invoked = Append(@, call),
                           !.out.received = Append(@, tab_id)]
          [] callback = "raises" ->
               [run EXCEPT !.out.invoked = Append(@, call),
                           !.out.errors = Append(@, tab_id)]
          [] callback = "unregisters" ->
               [unregister_tab_within(run, tab_id)
                   EXCEPT !.out.invoked = Append(@, call),
                          !.out.received = Append(@, tab_id)]
          [] callback = "registers" ->
               [register_tab_within(run, NewTabId, "fitting", "ok")
                   EXCEPT !.out.invoked = Append(@, call),
                          !.out.received = Append(@, tab_id)]

\* `for tab_id, subscriptions in self.subscription_map.items()` asks the
\* dict for its next item after every pass: when the callback has changed
\* the size of the dict, that raises RuntimeError, outside the try of the
\* delivery
next_item(before, after) ==
    IF Len(after.map) # Len(before.map)
    THEN [after EXCEPT !.out.uncaught = TRUE]
    ELSE after

\* variant: the exception of a callback is not caught per recipient and
\* ends the routing loop
RECURSIVE handle_data_published_StopsOnError(_, _, _)
handle_data_published_StopsOnError(message, run, i) ==
    IF i > Len(run.map) \/ run.out.errors # <<>> \/ run.out.uncaught
    THEN run
    ELSE IF is_recipient(message, run.tabs, run.map[i].key, run.map[i].value)
         THEN handle_data_published_StopsOnError(
                  message, next_item(run, deliver(message, run, run.map[i].key)), i + 1)
         ELSE handle_data_published_StopsOnError(message, run, i + 1)

\* variant: the routing loop walks the subscription map from its last
\* entry to its first
RECURSIVE handle_data_published_Backwards(_, _, _)
handle_data_published_Backwards(message, run, i) ==
    IF i > Len(run.map) \/ run.out.uncaught
    THEN run
    ELSE LET entry == run.map[Len(run.map) + 1 - i]
         IN  IF is_recipient(message, run.tabs, entry.key, entry.value)
             THEN handle_data_published_Backwards(
                      message, next_item(run, deliver(message, run, entry.key)), i + 1)
             ELSE handle_data_published_Backwards(message, run, i + 1)

\* the routing loop from the i-th entry of the subscription map on
RECURSIVE handle_data_published(_, _, _)
handle_data_published(message, run, i) ==
    IF i > Len(run.map) \/ run.out.uncaught
    THEN run
    ELSE IF is_recipient(message, run.tabs, run.map[i].key, run.map[i].value)
         THEN handle_data_published(
                  message, next_item(run, deliver(message, run, run.map[i].key)), i + 1)
         ELSE handle_data_published(message, run, i + 1)

\* variant: the capacity test is off by one (> for >=)
add_to_history_OffByOne(history, message, capacity) ==
    Append(IF Len(history) > capacity THEN Tail(history) ELSE history, message)

\* the history after a message is added: the oldest one is dropped first
\* when the history is full
add_to_history(history, message, capacity) ==
    Append(IF Len(history) >= capacity THEN Tail(history) ELSE history, message)

\* an exception that leaves the routing slot is unhandled in a slot: PyQt
\* reports it and either goes on, so that publish_data returns True, or
\* ends the process with qFatal ("abort") when no exception hook is set
publish_data(source_tab_id, data_type, data) ==
    IF ~is_active
    THEN /\ last' = Seen("publish_data", source_tab_id, data_type, data, "False")
         /\ UNCHANGED <<bus, now, accepted>>
    ELSE IF ~DictHas(registered_tabs, source_tab_id)
    THEN /\ last' = Seen("publish_data", source_tab_id, data_type, data, "False")
         /\ UNCHANGED <<bus, now, accepted>>
    ELSE LET source_tab == DictGet(registered_tabs, source_tab_id)
             message == create_data_message(source_tab_id, source_tab.tab_type,
                                            data_type, data, now + 1)
             errors == validate_data_message(message)
             filtered == apply_filters(data_filters, message, 1, <<>>)
             counted == DictSet(registered_tabs, source_tab_id,
                                [source_tab EXCEPT !.message_count = @ + 1,
                                                   !.last_activity = <<message.timestamp>>])
             routed == handle_data_published(
                           message,
                           Routing(counted, subscription_map, data_filters,
                                   [Seen("publish_data", source_tab_id, data_type, data, "True")
                                      EXCEPT !.filters_run = filtered.run]),
                           1)
         IN  /\ now' = now + 1
             /\ IF errors # <<>>
                THEN /\ last' = [Seen("publish_data", source_tab_id, data_type, data, "False")
                                   EXCEPT !.errors = <<source_tab_id>>]
                     /\ UNCHANGED <<bus, accepted>>
                ELSE IF ~filtered.passed
                THEN /\ last' = [Seen("publish_data", source_tab_id, data_type, data, "False")
                                   EXCEPT !.filters_run = filtered.run]
                     /\ UNCHANGED <<bus, accepted>>
                ELSE /\ registered_tabs' = routed.tabs
                     /\ subscription_map' = routed.map
                     /\ data_filters' = routed.filters
                     /\ message_history' =
                            add_to_history(message_history, message, max_message_history)
                     /\ accepted' = Append(accepted, message.timestamp)
                     /\ last' \in (IF routed.out.uncaught
                                   THEN {routed.out, [routed.out EXCEPT !.ret = "abort"]}
                                   ELSE {routed.out})
                     /\ UNCHANGED <<is_active, max_message_history>>

(***************************************************************************)
(* DataBus.deactivate_bus / shutdown                                       *)
(***************************************************************************)
deactivate_bus ==
    /\ is_active' = FALSE
    /\ last' = Seen("deactivate_bus", "", "", "", "None")
    /\ UNCHANGED <<registered_tabs, subscription_map, data_filters,
                   max_message_history, message_history, now, accepted>>

\* variant: shutdown does not deactivate the bus
shutdown_StaysActive ==
    /\ registered_tabs' = <<>>
    /\ data_filters' = <<>>
    /\ message_history' = <<>>
    /\ subscription_map' = <<>>
    /\ accepted' = <<>>
    /\ last' = Seen("shutdown", "", "", "", "None")
    /\ UNCHANGED <<is_active, max_message_history, now>>

\* unregister_tab for every registered id, then the three clear() calls,
\* then deactivate_bus
shutdown ==
    /\ registered_tabs' = <<>>
    /\ data_filters' = <<>>
    /\ message_history' = <<>>
    /\ subscription_map' = <<>>
    /\ is_active' = FALSE
    /\ accepted' = <<>>
    /\ last' = Seen("shutdown", "", "", "", "None")
    /\ UNCHANGED <<max_message_history, now>>

(***************************************************************************)
(* DataBus.clear_message_history                                           *)
(***************************************************************************)
clear_message_history ==
    /\ message_history' = <<>>
    /\ accepted' = <<>>
    /\ last' = Seen("clear_message_history", "", "", "", "None")
    /\ UNCHANGED <<is_active, registered_tabs, subscription_map, data_filters,
                   max_message_history, now>>

(***************************************************************************)
(* The read-only queries, computed from the current state.                 *)
(***************************************************************************)
\* the ids get_registered_tabs reports, with what it reports for each
get_registered_tabs ==
    [tab_id \in DictKeys(registered_tabs) |->
        LET reg == DictGet(registered_tabs, tab_id)
        IN  [tab_type |-> reg.tab_type,
             is_active |-> reg.is_active,
             message_count |-> reg.message_count,
             last_activity |-> reg.last_activity,
             subscriptions |-> IF DictHas(subscription_map, tab_id)
                               THEN DictGet(subscription_map, tab_id)
                               ELSE <<>>]]

\* limit is <<>> for None and <<n>> for the integer n; l[-n:] is the whole
\* list when n = 0
get_message_history(limit) ==
    IF limit = <<>>
    THEN message_history
    ELSE LET start == -limit[1]
             from == IF start < 0
                     THEN IF Len(message_history) + start < 0
                          THEN 0 ELSE Len(message_history) + start
                     ELSE IF start > Len(message_history)
                          THEN Len(message_history) ELSE start
         IN  SubSeq(message_history, from + 1, Len(message_history))

RECURSIVE SumSeq(_)
SumSeq(s) == IF s = <<>> THEN 0 ELSE Head(s) + SumSeq(Tail(s))

\* variant: total_messages_processed counts the messages of the history
\* instead of summing the counters of the handles
get_bus_statistics_CountsHistory ==
    [is_active |-> is_active,
     total_registered_tabs |-> Len(registered_tabs),
     active_tabs |-> Len(SelectSeq(registered_tabs, LAMBDA e : e.value.is_active)),
     total_messages_processed |-> Len(message_history),
     message_history_size |-> Len(message_history),
     active_filters |-> Len(data_filters),
     total_subscriptions |->
         SumSeq([i \in DOMAIN subscription_map |-> Len(subscription_map[i].value)])]

get_bus_statistics ==
    [is_active |-> is_active,
     total_registered_tabs |-> Len(registered_tabs),
     active_tabs |-> Len(SelectSeq(registered_tabs, LAMBDA e : e.value.is_active)),
     total_messages_processed |->
         SumSeq([i \in DOMAIN registered_tabs |-> registered_tabs[i].value.message_count]),
     message_history_size |-> Len(message_history),
     active_filters |-> Len(data_filters),
     total_subscriptions |->
         SumSeq([i \in DOMAIN subscription_map |-> Len(subscription_map[i].value)])]

\* the order of the current handles after a call: register_tab puts a new
\* TabRegistration in the registry (data_bus.py:121-125), unregister_tab
\* and shutdown take handles out of it (data_bus.py:150, 440)
handles_after(seen, order) ==
    CASE seen.op = "register_tab" /\ seen.ret = "True" ->
             Append(SelectSeq(order, LAMBDA t : t # seen.id), seen.id)
      [] seen.op = "unregister_tab" /\ seen.ret = "True" ->
             SelectSeq(order, LAMBDA t : t # seen.id)
      [] seen.op = "shutdown" -> <<>>
      [] OTHER -> order

\* one call of a method of the bus, in a run of at most `bound` calls
CallWithin(bound, method) ==
    /\ calls < bound
    /\ calls' = calls + 1
    /\ method
    /\ handle_order' = handles_after(last', handle_order)
    /\ UNCHANGED shell_side

Call(method) == CallWithin(MaxCalls, method)

Next ==
    \/ \E tab_id \in TabIds, r \in Registrations :
          Call(register_tab(tab_id, r[1], r[2]))
    \/ \E tab_id \in TabIds : Call(unregister_tab(tab_id))
    \/ \E tab_id \in TabIds, data_type \in DataTypes :
          Call(subscribe_to_data_type(tab_id, data_type))
    \/ \E tab_id \in TabIds, data_type \in DataTypes :
          Call(unsubscribe_from_data_type(tab_id, data_type))
    \/ \E f \in Filters : Call(add_data_filter(f[1], f[2]))
    \/ \E filter_id \in FilterIds : Call(remove_data_filter(filter_id))
    \/ \E source_tab_id \in TabIds, p \in Publications :
          Call(publish_data(source_tab_id, p[1], p[2]))
    \/ Call(deactivate_bus)
    \/ Call(shutdown)
    \/ Call(clear_message_history)

Spec == Init /\ [][Next]_vars

\* the routing specification: three tabs register, re-register, unregister,
\* subscribe and publish
NextRouting ==
    \/ \E r \in RoutingRegistrations :
          CallWithin(MaxRoutingCalls, register_tab(r[1], r[2], r[3]))
    \/ \E tab_id \in RoutingTabIds :
          CallWithin(MaxRoutingCalls, unregister_tab(tab_id))
    \/ \E tab_id \in RoutingTabIds :
          CallWithin(MaxRoutingCalls,
                     subscribe_to_data_type(tab_id, RoutingPublication[1]))
    \/ \E source_tab_id \in RoutingTabIds :
          CallWithin(MaxRoutingCalls,
                     publish_data(source_tab_id, RoutingPublication[1],
                                  RoutingPublication[2]))

SpecRouting == Init /\ [][NextRouting]_vars

\* the specification of the callbacks that call the bus: "a" publishes, the
\* callback of "b" unregisters "b" or registers a new tab, the callback of
\* "c" returns
ReentrantRegistrations ==
    {<<"a", "spreadsheet", "ok">>, <<"b", "fitting", "unregisters">>,
     <<"b", "fitting", "registers">>, <<"c", "spreadsheet", "ok">>}

NextReentrant ==
    \/ \E r \in ReentrantRegistrations :
          CallWithin(MaxRoutingCalls, register_tab(r[1], r[2], r[3]))
    \/ \E tab_id \in RoutingTabIds \cup {NewTabId} :
          CallWithin(MaxRoutingCalls, unregister_tab(tab_id))
    \/ \E tab_id \in RoutingTabIds \cup {NewTabId} :
          CallWithin(MaxRoutingCalls,
                     subscribe_to_data_type(tab_id, RoutingPublication[1]))
    \/ \E source_tab_id \in RoutingTabIds :
          CallWithin(MaxRoutingCalls,
                     publish_data(source_tab_id, RoutingPublication[1],
                                  RoutingPublication[2]))

SpecReentrant == Init /\ [][NextReentrant]_vars

(***************************************************************************)
(* The shell.  The operators below work on the objects of the shell taken  *)
(* together, sh = [tab_widgets, windows, window_hierarchy], and give them  *)
(* back as the method leaves them.  Indices of tabs are Qt's: the tab at   *)
(* index i of a strip is pages[i + 1].                                     *)
(***************************************************************************)
Shell == [tab_widgets |-> tab_widgets, windows |-> windows,
          window_hierarchy |-> window_hierarchy]

\* QTabWidget.count, QTabWidget.widget(index)
count(sh, strip) == Len(sh.tab_widgets[strip].pages)
widget(sh, strip, index) == sh.tab_widgets[strip].pages[index + 1]

\* QTabWidget.removeTab(index)
removeTab(sh, strip, index) ==
    [sh EXCEPT !.tab_widgets[strip].pages =
        SubSeq(@, 1, index) \o SubSeq(@, index + 2, Len(@))]

\* a page belongs to one QTabWidget: putting it in a strip takes it out of
\* the strip that had it
without(sh, page) ==
    [sh EXCEPT !.tab_widgets =
        [strip \in Strips |->
            [@[strip] EXCEPT !.pages = SelectSeq(@, LAMBDA p : p # page)]]]

\* QTabWidget.insertTab(index, page): an index past the end appends
insertTab(sh, strip, index, page) ==
    LET pages == without(sh, page).tab_widgets[strip].pages
        at == IF index > Len(pages) THEN Len(pages) ELSE index
    IN  [without(sh, page) EXCEPT !.tab_widgets[strip].pages =
            SubSeq(pages, 1, at) \o <<page>> \o SubSeq(pages, at + 1, Len(pages))]

\* QTabWidget.addTab(page)
addTab(sh, strip, page) == insertTab(sh, strip, count(without(sh, page), strip), page)

\* DetachableTabWidget.reattach_tab
reattach_tab(sh, strip, page) == addTab(sh, strip, page)

\* DetachableTabWidget.reorder_tabs
reorder_tabs(sh, strip, from_index, to_index) ==
    IF from_index = to_index \/ from_index = 0 \/ to_index = 0
    THEN sh
    ELSE insertTab(removeTab(sh, strip, from_index), strip,
                   IF to_index > from_index THEN to_index - 1 ELSE to_index,
                   widget(sh, strip, from_index))

\* WindowHierarchy.register_detached_window
register_detached_window(sh, w) ==
    IF ListHas(sh.window_hierarchy.detached_windows, w)
    THEN sh
    ELSE [sh EXCEPT !.window_hierarchy.detached_windows = Append(@, w),
                    !.windows[w].hierarchy_manager = TRUE]

\* WindowHierarchy.unregister_detached_window
unregister_detached_window(sh, w) ==
    IF ListHas(sh.window_hierarchy.detached_windows, w)
    THEN [sh EXCEPT !.window_hierarchy.detached_windows = ListRemove(@, w)]
    ELSE sh

\* WindowHierarchy.on_detached_window_closed: every page but the Home
\* page has get_state
hierarchy_on_detached_window_closed(sh, w, page) ==
    LET unregistered == unregister_detached_window(sh, w)
    IN  IF /\ ~sh.window_hierarchy.shutdown_in_progress
           /\ sh.window_hierarchy.main_window # <<>>
           /\ page # Home
        THEN reattach_tab(unregistered, sh.window_hierarchy.main_window[1], page)
        ELSE unregistered

\* DetachableTabWidget.on_detached_window_closed
on_detached_window_closed(sh, strip, w) ==
    IF ListHas(sh.tab_widgets[strip].detached_windows, w)
    THEN [sh EXCEPT !.tab_widgets[strip].detached_windows = ListRemove(@, w)]
    ELSE sh

\* the slots connected to window_closed, called for one page in the order
\* in which they were connected: the hierarchy's, then the tab strips'
RECURSIVE strips_on_detached_window_closed(_, _, _, _)
strips_on_detached_window_closed(sh, w, slots, i) ==
    IF i > Len(slots)
    THEN sh
    ELSE strips_on_detached_window_closed(
             on_detached_window_closed(sh, slots[i], w), w, slots, i + 1)

window_closed_emit(sh, w, page) ==
    strips_on_detached_window_closed(
        IF sh.windows[w].hierarchy_manager
        THEN hierarchy_on_detached_window_closed(sh, w, page)
        ELSE sh,
        w, sh.windows[w].window_closed, 1)

\* DetachedWindow.closeEvent: window_closed is emitted for every page the
\* window holds when it is closed, then the window is hidden
RECURSIVE closeEvent_emit(_, _, _, _)
closeEvent_emit(sh, w, widgets_to_emit, i) ==
    IF i > Len(widgets_to_emit)
    THEN sh
    ELSE closeEvent_emit(window_closed_emit(sh, w, widgets_to_emit[i]),
                         w, widgets_to_emit, i + 1)

closeEvent(sh, w) ==
    [closeEvent_emit(sh, w, sh.tab_widgets[w].pages, 1)
        EXCEPT !.windows[w].visible = FALSE]

\* the window the next DetachedWindow(...) call creates
NextWindow(sh) == 1 + Cardinality({w \in DOMAIN sh.windows : sh.windows[w].exists})

\* WindowManager.create_detached_window_at_position: the window is created
\* with the page as the only tab of its internal_tab_widget
create_detached_window_at_position(sh, parent_tab_widget, page) ==
    LET w == NextWindow(sh)
    IN  addTab([sh EXCEPT !.windows[w] = DetachedWindow(parent_tab_widget),
                          !.tab_widgets[w] = DetachableTabWidget],
               w, page)

\* DetachableTabWidget.detach_tab_at_position; raises tells that the
\* creation of the window raised, which happens after the tab was removed
\* from the strip
detach_tab_at_position(sh, strip, index, raises) ==
    IF count(sh, strip) <= 1 \/ index = 0
    THEN sh
    ELSE IF raises
    THEN removeTab(sh, strip, index)
    ELSE LET w == NextWindow(sh)
             created == create_detached_window_at_position(
                            removeTab(sh, strip, index), strip, widget(sh, strip, index))
             registered == register_detached_window(
                            [created EXCEPT !.tab_widgets[strip].detached_windows =
                                               Append(@, w)], w)
         IN  [registered EXCEPT !.windows[w].window_closed = Append(@, strip),
                                !.windows[w].visible = TRUE]

(***************************************************************************)
(* The events of the shell.  The mouse is modelled as Qt delivers it: the  *)
(* tab bar on which a button goes down has the grab and gets the moves and *)
(* the releases until no button is held; pointer.within tells whether the  *)
(* pointer is inside the rectangle _is_dragging_within_tab_bar tests,      *)
(* pointer.slot the insertion index _calculate_insertion_index gives for   *)
(* it, and pointer.over the other tab strip it is over, if any, when it is *)
(* outside.  Menus and close buttons are used while no button is held.     *)
(***************************************************************************)
TabTypes == {"spreadsheet", "fitting", "solver", "montecarlo"}
\* EnhancedTabBar.drag_threshold, in pixels
drag_threshold == 15
\* the Manhattan lengths a pointer-move is tried with: one pixel short of
\* the threshold, the threshold, one pixel more
Distances == {drag_threshold - 1, drag_threshold, drag_threshold + 1}
Buttons == {"Left", "Right"}

Becomes(sh) ==
    /\ tab_widgets' = sh.tab_widgets
    /\ windows' = sh.windows
    /\ window_hierarchy' = sh.window_hierarchy

\* the strip is on screen
Visible(strip) ==
    IF strip = Main THEN TRUE ELSE windows[strip].exists /\ windows[strip].visible

PointerFree == pointer.grab = <<>>

Held(button) == IF button = "Left" THEN pointer.left ELSE pointer.right

\* the state of the drag of a strip
DragStateOf(tab_widget) ==
    IF tab_widget.current_drag = <<>>
    THEN "NONE"
    ELSE tab_widget.current_drag[1].current_state

\* Notebook.new_tab
new_tab(tab_type) ==
    /\ PointerFree
    /\ created_tabs < MaxTabs
    /\ created_tabs' = created_tabs + 1
    /\ Becomes(addTab(Shell, Main, created_tabs + 1))
    /\ event' = Shown("new_tab", Main, <<>>)
    /\ UNCHANGED <<active_drag, pointer>>

\* variant: the test that protects the Home tab is missing
close_tab_ClosesHome(index) ==
    /\ PointerFree
    /\ Becomes(removeTab(Shell, Main, index))
    /\ event' = Shown("close_tab", Main, <<>>)
    /\ UNCHANGED <<active_drag, created_tabs, pointer>>

\* Notebook.close_tab
close_tab(index) ==
    /\ PointerFree
    /\ Becomes(IF index # 0 THEN removeTab(Shell, Main, index) ELSE Shell)
    /\ event' = Shown("close_tab", Main, <<>>)
    /\ UNCHANGED <<active_drag, created_tabs, pointer>>

\* EnhancedTabBar.mousePressEvent: tab_index is tabAt(event.pos()), -1 when
\* the pointer is on no tab
mousePressEvent(strip, button, tab_index) ==
    LET starts == button = "Left" /\ tab_index >= 1
        before == DragStateOf(tab_widgets[strip])
    IN  /\ Visible(strip)
        /\ ~Held(button)
        /\ pointer.grab \in {<<>>, <<strip>>}
        /\ (pointer.grab # <<>> /\ ~pointer.within) => tab_index = -1
        /\ tab_widgets' =
              IF starts
              THEN [tab_widgets EXCEPT ![strip].current_drag =
                      <<DragOperation(tab_index, strip, widget(Shell, strip, tab_index))>>]
              ELSE tab_widgets
        /\ pointer' = [pointer EXCEPT
                          !.left = @ \/ button = "Left",
                          !.right = @ \/ button = "Right",
                          !.grab = <<strip>>,
                          !.within = IF pointer.grab = <<>> THEN TRUE ELSE @,
                          !.slot = IF pointer.grab = <<>> THEN 0 ELSE @,
                          !.over = IF pointer.grab = <<>> THEN <<>> ELSE @]
        /\ event' = Shown("mousePressEvent", strip,
                          IF starts THEN <<before, "PREPARING">> ELSE <<before>>)
        /\ UNCHANGED <<windows, window_hierarchy, active_drag, created_tabs>>

\* EnhancedTabBar._start_active_drag: the preview is created and the state
\* chosen by where the pointer is
start_active_drag(drag, within) ==
    [drag EXCEPT !.drag_preview = TRUE,
                 !.current_state = IF within THEN "REORDERING" ELSE "DETACHING"]

\* EnhancedTabBar._handle_active_drag
handle_active_drag(drag, within) ==
    IF ~drag.drag_preview
    THEN drag
    ELSE [drag EXCEPT !.current_state = IF within THEN "REORDERING" ELSE "DETACHING"]

\* EnhancedTabBar.mouseMoveEvent: far tells whether the pointer is at
\* drag_threshold or more from drag_start_pos, which lies on the tab bar
mouseMoveEvent(strip, far, within, slot, over) ==
    LET tab_widget == tab_widgets[strip]
        before == DragStateOf(tab_widget)
        drag == tab_widget.current_drag[1]
        moved == IF tab_widget.current_drag = <<>> \/ ~pointer.left \/ pointer.right
                 THEN tab_widget.current_drag
                 ELSE IF before = "PREPARING"
                      THEN IF far THEN <<start_active_drag(drag, within)>> ELSE <<drag>>
                      ELSE IF before \in {"REORDERING", "DETACHING"}
                           THEN <<handle_active_drag(drag, within)>>
                           ELSE <<drag>>
        after == IF moved = <<>> THEN "NONE" ELSE moved[1].current_state
    IN  /\ pointer.grab = <<strip>>
        /\ tab_widget.current_drag = <<>> => ~far
        /\ (tab_widget.current_drag # <<>> /\ ~far) => within
        /\ slot \in (IF within THEN 0..Len(tab_widget.pages) ELSE {0})
        /\ over \in (IF within
                     THEN {<<>>}
                     ELSE {<<>>} \cup {<<other>> : other \in
                                         {o \in Strips \ {strip} : Visible(o)}})
        /\ tab_widgets' = [tab_widgets EXCEPT
                              ![strip].current_drag = moved,
                              ![strip].preview_shown =
                                 IF moved = <<>> THEN @ ELSE moved[1].drag_preview]
        /\ pointer' = [pointer EXCEPT !.within = within, !.slot = slot, !.over = over]
        /\ event' = Shown("mouseMoveEvent", strip,
                          IF after = before THEN <<before>> ELSE <<before, after>>)
        /\ UNCHANGED <<windows, window_hierarchy, active_drag, created_tabs>>

\* EnhancedTabBar._complete_drag_operation, after it has set the state to
\* COMPLETING: _complete_reorder asks to reorder the tab onto its own index,
\* _complete_detach asks to detach it
complete_drag_operation(sh, strip, drag, within, raises) ==
    IF within
    THEN reorder_tabs(sh, strip, drag.source_tab_index, drag.source_tab_index)
    ELSE detach_tab_at_position(sh, strip, drag.source_tab_index, raises)

\* variant: the DragOperation is cleaned up but stays in the slot
cleanup_drag_operation_KeepsDrag(sh, strip) ==
    [sh EXCEPT !.tab_widgets[strip].current_drag =
                  IF @ = <<>> THEN @ ELSE <<[@[1] EXCEPT !.drag_preview = FALSE]>>,
               !.tab_widgets[strip].preview_shown = FALSE,
               !.tab_widgets[strip].external_drag_mode = FALSE,
               !.tab_widgets[strip].current_external_drag = <<>>]

\* EnhancedTabBar._cleanup_drag_operation: DragOperation.cleanup closes the
\* preview, drag_operation_ended runs _handle_drag_ended, and the slot is
\* emptied
cleanup_drag_operation(sh, strip) ==
    [sh EXCEPT !.tab_widgets[strip].current_drag = <<>>,
               !.tab_widgets[strip].preview_shown = FALSE,
               !.tab_widgets[strip].external_drag_mode = FALSE,
               !.tab_widgets[strip].current_external_drag = <<>>]

\* EnhancedTabBar.mouseReleaseEvent; raises tells that the completion
\* raises where it builds the detached window (the exception is caught and
\* logged, and the finally clause cleans up)
mouseReleaseEvent(strip, button, raises) ==
    LET tab_widget == tab_widgets[strip]
        before == DragStateOf(tab_widget)
        drag == tab_widget.current_drag[1]
        completed == complete_drag_operation(Shell, strip, drag, pointer.within, raises)
        detaches == /\ tab_widget.current_drag # <<>>
                    /\ ~pointer.within
                    /\ drag.source_tab_index # 0
                    /\ Len(tab_widget.pages) > 1
    IN  /\ pointer.grab = <<strip>>
        /\ Held(button)
        /\ raises => detaches
        /\ IF tab_widget.current_drag = <<>>
           THEN /\ UNCHANGED <<tab_widgets, windows, window_hierarchy>>
                /\ event' = Shown("mouseReleaseEvent", strip, <<before>>)
           ELSE /\ (detaches /\ ~raises) => NextWindow(Shell) \in WindowIds
                /\ Becomes(cleanup_drag_operation(completed, strip))
                /\ event' = [Shown("mouseReleaseEvent", strip,
                                   <<before, "COMPLETING", "NONE">>)
                                EXCEPT !.raised = raises]
        /\ pointer' = [pointer EXCEPT
                          !.left = @ /\ button # "Left",
                          !.right = @ /\ button # "Right",
                          !.grab = IF Held(IF button = "Left" THEN "Right" ELSE "Left")
                                   THEN @ ELSE <<>>,
                          !.over = IF Held(IF button = "Left" THEN "Right" ELSE "Left")
                                   THEN @ ELSE <<>>]
        /\ UNCHANGED <<active_drag, created_tabs>>

\* DetachedWindow._create_new_tab, from the "New Tab" menu of the window
create_new_tab(w, tab_type) ==
    /\ PointerFree
    /\ Visible(w)
    /\ created_tabs < MaxTabs
    /\ created_tabs' = created_tabs + 1
    /\ Becomes(addTab(Shell, w, created_tabs + 1))
    /\ event' = Shown("_create_new_tab", w, <<>>)
    /\ UNCHANGED <<active_drag, pointer>>

\* DetachedWindow._reattach_current_tab: current_index is the tab the user
\* has selected in the window
reattach_current_tab(w, current_index) ==
    LET parent_tab_widget == windows[w].parent_tab_widget[1]
        moved == reattach_tab(removeTab(Shell, w, current_index), parent_tab_widget,
                              widget(Shell, w, current_index))
    IN  /\ PointerFree
        /\ Visible(w)
        /\ current_index \in 0..(count(Shell, w) - 1)
        /\ Becomes(IF count(moved, w) = 0 THEN closeEvent(moved, w) ELSE moved)
        /\ event' = Shown("_reattach_current_tab", w, <<>>)
        /\ UNCHANGED <<active_drag, created_tabs, pointer>>

\* the pages of tabs_to_reattach from the i-th on, reattached in order
RECURSIVE reattach_each(_, _, _, _)
reattach_each(sh, strip, tabs_to_reattach, i) ==
    IF i > Len(tabs_to_reattach)
    THEN sh
    ELSE reattach_each(reattach_tab(sh, strip, tabs_to_reattach[i]),
                       strip, tabs_to_reattach, i + 1)

\* DetachedWindow._reattach_all_tabs
reattach_all_tabs(w) ==
    /\ PointerFree
    /\ Visible(w)
    /\ Becomes(closeEvent(reattach_each(Shell, windows[w].parent_tab_widget[1],
                                        tab_widgets[w].pages, 1), w))
    /\ event' = Shown("_reattach_all_tabs", w, <<>>)
    /\ UNCHANGED <<active_drag, created_tabs, pointer>>

\* the user closes a detached window: DetachedWindow.closeEvent
close_window(w) ==
    /\ PointerFree
    /\ Visible(w)
    /\ Becomes(closeEvent(Shell, w))
    /\ event' = Shown("closeEvent", w, <<>>)
    /\ UNCHANGED <<active_drag, created_tabs, pointer>>

\* DetachableTabWidget.close_all_detached_windows: close() sends every
\* window of a copy of the list its closeEvent, then the list is cleared
RECURSIVE close_each(_, _, _)
close_each(sh, to_close, i) ==
    IF i > Len(to_close)
    THEN sh
    ELSE close_each(closeEvent(sh, to_close[i]), to_close, i + 1)

close_all_detached_windows(sh, strip) ==
    [close_each(sh, sh.tab_widgets[strip].detached_windows, 1)
        EXCEPT !.tab_widgets[strip].detached_windows = <<>>]

\* the loop `while notebook.tabs.count() > 1: notebook.tabs.removeTab(1)`
remove_all_but_first(sh, strip) ==
    [sh EXCEPT !.tab_widgets[strip].pages = IF @ = <<>> THEN @ ELSE <<@[1]>>]

\* SessionManager._clear_current_session
clear_current_session(sh) ==
    remove_all_but_first(close_all_detached_windows(sh, Main), Main)

\* the tab states whose restoration fails: a dict for which
\* create_tab_from_state raises, and an entry that is not a dict (null),
\* whose get raises
Failing == {"raises", "not_a_dict"}

\* a restoration under way: the shell, the next page to create, and whether
\* an exception has left the restoring method
Restoring(sh, page) == [sh |-> sh, page |-> page, raised |-> FALSE]

\* SessionManager._restore_main_window: a tab is created and added for
\* every tab state whose type is not "home"; an exception of
\* create_tab_from_state is caught and the loop goes on; tab_state.get is
\* called outside the try and its exception leaves the method
RECURSIVE restore_main_window(_, _, _)
restore_main_window(run, tabs_data, i) ==
    IF i > Len(tabs_data)
    THEN run
    ELSE CASE tabs_data[i] = "not_a_dict" -> [run EXCEPT !.raised = TRUE]
           [] tabs_data[i] \in {"home", "raises"} ->
                  restore_main_window(run, tabs_data, i + 1)
           [] OTHER ->
                  restore_main_window(
                      [run EXCEPT !.sh = addTab(@, Main, run.page), !.page = @ + 1],
                      tabs_data, i + 1)

\* the tabs of one restored window after the first: addTab for each
RECURSIVE add_remaining(_, _, _, _, _)
add_remaining(sh, w, tabs_data, i, page) ==
    IF i > Len(tabs_data)
    THEN sh
    ELSE add_remaining(addTab(sh, w, page), w, tabs_data, i + 1, page + 1)

\* the tab states of a window for which create_tab_from_state returns a
\* widget before the first one for which it raises
created_before_failure(tabs_data) ==
    LET failing == {i \in DOMAIN tabs_data : tabs_data[i] \in Failing}
    IN  IF failing = {}
        THEN Len(tabs_data)
        ELSE (CHOOSE i \in failing : \A j \in failing : i <= j) - 1

\* SessionManager._restore_detached_windows: a window is created, listed,
\* registered and shown for every window state that has tabs; the widgets
\* of all its tabs are created first, inside one try for the whole window,
\* so an exception while creating one of them leaves the window out
RECURSIVE restore_detached_windows(_, _, _)
restore_detached_windows(run, detached_windows_data, i) ==
    IF i > Len(detached_windows_data)
    THEN run
    ELSE LET tabs_data == detached_windows_data[i]
             sh == run.sh
             page == run.page
             w == NextWindow(sh)
             created == add_remaining(
                            create_detached_window_at_position(sh, Main, page),
                            w, tabs_data, 2, page + 1)
             listed == register_detached_window(
                           [created EXCEPT !.tab_widgets[Main].detached_windows =
                                              Append(@, w)], w)
         IN  IF tabs_data = <<>>
             THEN restore_detached_windows(run, detached_windows_data, i + 1)
             ELSE IF created_before_failure(tabs_data) < Len(tabs_data)
             THEN restore_detached_windows(
                      [run EXCEPT !.page = @ + created_before_failure(tabs_data)],
                      detached_windows_data, i + 1)
             ELSE restore_detached_windows(
                      [run EXCEPT !.sh = [listed EXCEPT !.windows[w].visible = TRUE],
                                  !.page = @ + Len(tabs_data)],
                      detached_windows_data, i + 1)

\* the session files load_session is given: no file; a file holding a
\* list (the legacy format); a dict written by another version; a dict of
\* this version, with the types of the tabs of the main window and of every
\* detached window, some of them with a tab state that cannot be restored
Sessions ==
    {[file |-> "missing", main |-> <<>>, detached |-> <<>>],
     [file |-> "list", main |-> <<"spreadsheet">>, detached |-> <<>>],
     [file |-> "other_version", main |-> <<"spreadsheet">>, detached |-> <<>>],
     [file |-> "current", main |-> <<"home">>, detached |-> <<>>],
     [file |-> "current", main |-> <<"home", "spreadsheet">>,
      detached |-> << <<"fitting">> >>],
     [file |-> "current", main |-> <<"home", "raises", "spreadsheet">>,
      detached |-> <<>>],
     [file |-> "current", main |-> <<"home", "not_a_dict", "spreadsheet">>,
      detached |-> << <<"fitting">> >>],
     [file |-> "current", main |-> <<"home">>,
      detached |-> << <<"spreadsheet", "raises", "fitting">>, <<"fitting">> >>]}

\* the tab states of a session file in reading order: the file's kind, the
\* tabs of the main window, then "window" before the tabs of each detached
\* window
RECURSIVE entries_of(_)
entries_of(detached_windows_data) ==
    IF detached_windows_data = <<>>
    THEN <<>>
    ELSE <<"window">> \o Head(detached_windows_data)
             \o entries_of(Tail(detached_windows_data))

session_entries(session) ==
    <<session.file>> \o session.main \o entries_of(session.detached)

\* the number of windows load_session creates for a dict of this version
windows_restored(session) ==
    IF \E i \in DOMAIN session.main : session.main[i] = "not_a_dict"
    THEN 0
    ELSE Len(SelectSeq(session.detached,
                       LAMBDA t : t # <<>> /\ created_before_failure(t) = Len(t)))

\* SessionManager.load_session for a dict of this version: the session is
\* cleared, then the main window and the detached windows are restored; an
\* exception that leaves _restore_main_window ends the load (the except of
\* load_session); page is the next page to create
restored_session(sh, session, page) ==
    LET main_window == restore_main_window(
                           Restoring(clear_current_session(sh), page),
                           session.main, 1)
    IN  IF main_window.raised
        THEN main_window
        ELSE restore_detached_windows(main_window, session.detached, 1)

\* the state get_state gives for a page, which holds its type and tab_id
get_state(page) == "tab_" \o ToString(page)

\* the states of the pages of a strip that have get_state: the Home page
\* has none
get_tab_states(sh, strip) ==
    LET reporting == SelectSeq(sh.tab_widgets[strip].pages, LAMBDA p : p # Home)
    IN  [i \in DOMAIN reporting |-> get_state(reporting[i])]

\* SessionManager.save_session: the tabs of the main strip, then those of
\* every window in the detached_windows of the main strip
save_session(sh) ==
    [file |-> "current",
     main |-> get_tab_states(sh, Main),
     detached |-> [i \in DOMAIN sh.tab_widgets[Main].detached_windows |->
                     get_tab_states(sh, sh.tab_widgets[Main].detached_windows[i])]]

\* SessionManager.load_session: without a file nothing is done; the
\* version test raises on a list (a list has no get) and nothing is done; a
\* dict of another version goes to _load_legacy_session, which clears the
\* main strip and raises on the first key of the dict; a dict of this
\* version clears the session and restores the windows
load_session(session) ==
    LET restored == restored_session(Shell, session, created_tabs + 1)
    IN  /\ PointerFree
        /\ UNCHANGED <<active_drag, pointer>>
        /\ CASE session.file \in {"missing", "list"} ->
                   /\ event' = Shown("load_session", Main, session_entries(session))
                   /\ UNCHANGED <<tab_widgets, windows, window_hierarchy, created_tabs>>
             [] session.file = "other_version" ->
                   /\ event' = Shown("load_session", Main, session_entries(session))
                   /\ Becomes(remove_all_but_first(Shell, Main))
                   /\ UNCHANGED created_tabs
             [] session.file = "current" ->
                   /\ NextWindow(Shell) + windows_restored(session)
                         <= Cardinality(WindowIds) + 1
                   /\ restored.page - 1 <= MaxTabs
                   /\ event' = [Shown("load_session", Main, session_entries(session))
                                   EXCEPT !.raised = restored.raised]
                   /\ created_tabs' = restored.page - 1
                   /\ Becomes(restored.sh)

\* DetachableTabWidget._complete_external_drag_drop: the tab of the
\* external drag leaves its strip and is inserted here at insert_index
\* (_calculate_insertion_index, 0 included) when the drop is on the tab bar,
\* or else gets a new detached window; a source window left empty is closed
complete_external_drag_drop(sh, strip, drag, on_tab_bar, insert_index) ==
    LET source_widget == drag.source_widget
        source_index == drag.source_tab_index
        page == widget(sh, source_widget, source_index)
        removed == removeTab(sh, source_widget, source_index)
        w == NextWindow(removed)
        created == create_detached_window_at_position(removed, strip, page)
        registered == register_detached_window(
                          [created EXCEPT !.windows[w].visible = TRUE,
                                          !.tab_widgets[strip].detached_windows =
                                             Append(@, w)], w)
    IN  IF source_index >= count(sh, source_widget)
        THEN sh
        ELSE IF on_tab_bar
             THEN insertTab(removed, strip, insert_index, page)
             ELSE IF count(registered, source_widget) = 0 /\ source_widget # Main
                  THEN closeEvent(registered, source_widget)
                  ELSE registered

\* GlobalDragManager.complete_drag, on the strips: with an active drag every
\* registered tab widget leaves the external drag mode
complete_drag(sh) ==
    IF active_drag = <<>>
    THEN sh
    ELSE [sh EXCEPT !.tab_widgets =
            [strip \in Strips |->
                [@[strip] EXCEPT !.external_drag_mode = FALSE,
                                 !.current_external_drag = <<>>]]]

\* DetachableTabWidget.dropEvent: something is dropped on the tab widget
\* (a drag of the desktop; no button is down in the application)
dropEvent(strip, on_tab_bar, insert_index) ==
    LET tab_widget == tab_widgets[strip]
        dropped == IF tab_widget.current_external_drag = <<>>
                   THEN Shell
                   ELSE complete_external_drag_drop(
                            Shell, strip, tab_widget.current_external_drag[1],
                            on_tab_bar, insert_index)
    IN  /\ PointerFree
        /\ Visible(strip)
        /\ insert_index <= count(Shell, strip)
        /\ (tab_widget.current_external_drag # <<>> /\ ~on_tab_bar) =>
              NextWindow(Shell) \in WindowIds
        /\ Becomes(complete_drag(dropped))
        /\ active_drag' = <<>>
        /\ event' = Shown("dropEvent", strip, <<>>)
        /\ UNCHANGED <<created_tabs, pointer>>

(***************************************************************************)
(* WindowHierarchy.initiate_application_shutdown and the close of the main *)
(* window.  A run is what the sequence has reached: the shell, the steps   *)
(* taken, whether quit() was called and whether the bus was shut down.     *)
(* fails names the steps that raise: fails.save inside                     *)
(* save_complete_application_state, fails.close the windows whose close()  *)
(* raises (before the window has done anything), fails.bus the shutdown of *)
(* the bus (before the bus has done anything).                             *)
(***************************************************************************)
\* one step of the shutdown: its name, whether it went through, the window
\* it was about (0 for none) and the detached windows that were open and
\* registered with the hierarchy when it was taken
Step(step, ok, window, sh) ==
    [step |-> step, ok |-> ok, window |-> window,
     open |-> {w \in DOMAIN sh.windows :
                 /\ sh.windows[w].visible
                 /\ ListHas(sh.window_hierarchy.detached_windows, w)}]

\* WindowHierarchy.save_complete_application_state: the file it writes has
\* version "2.0", the tabs of the main window and those of every window in
\* the hierarchy's list
save_complete_application_state(sh) ==
    [file |-> "2.0",
     main |-> get_tab_states(sh, Main),
     detached |-> [i \in DOMAIN sh.window_hierarchy.detached_windows |->
                     get_tab_states(sh, sh.window_hierarchy.detached_windows[i])]]

\* the session file after a save that raises or not: a save that raises
\* leaves the file as it was
written(file, fails, session) == IF fails THEN file ELSE <<session>>

\* the loop over the copy of detached_windows, with its try around close()
RECURSIVE close_detached_windows(_, _, _, _)
close_detached_windows(run, copy, i, fails) ==
    IF i > Len(copy)
    THEN run
    ELSE close_detached_windows(
             [run EXCEPT
                 !.sh = IF copy[i] \in fails.close THEN @ ELSE closeEvent(@, copy[i]),
                 !.log = Append(@, Step("close", copy[i] \notin fails.close,
                                        copy[i], run.sh))],
             copy, i + 1, fails)

\* variant: a save that fails raises into the outer try, which skips the
\* closing of the windows and the shutdown of the bus
shutdown_sequence_SaveRaises(run, fails) ==
    LET flagged == [run.sh EXCEPT !.window_hierarchy.shutdown_in_progress = TRUE]
        started == [run EXCEPT
                       !.sh = flagged,
                       !.file = written(@, fails.save,
                                        save_complete_application_state(flagged)),
                       !.log = @ \o <<Step("shutdown_initiated", TRUE, 0, flagged),
                                      Step("save_complete_application_state",
                                           ~fails.save, 0, flagged)>>]
        closed == close_detached_windows(
                      [started EXCEPT
                          !.log = Append(@, Step("all_windows_closing", TRUE, 0, flagged))],
                      flagged.window_hierarchy.detached_windows, 1, fails)
    IN  IF fails.save
        THEN [started EXCEPT !.log = Append(@, Step("quit", TRUE, 0, flagged)),
                             !.quit = TRUE]
        ELSE [closed EXCEPT
                 !.log = @ \o <<Step("shutdown_global_data_bus", ~fails.bus, 0, closed.sh),
                                Step("quit", TRUE, 0, closed.sh)>>,
                 !.bus_down = @ \/ ~fails.bus,
                 !.quit = TRUE]

\* variant: the session is saved after the detached windows were closed
shutdown_sequence_SavesLast(run, fails) ==
    LET flagged == [run.sh EXCEPT !.window_hierarchy.shutdown_in_progress = TRUE]
        started == [run EXCEPT
                       !.sh = flagged,
                       !.log = @ \o <<Step("shutdown_initiated", TRUE, 0, flagged),
                                      Step("all_windows_closing", TRUE, 0, flagged)>>]
        closed == close_detached_windows(
                      started, flagged.window_hierarchy.detached_windows, 1, fails)
    IN  [closed EXCEPT
            !.file = written(@, fails.save, save_complete_application_state(closed.sh)),
            !.log = @ \o <<Step("save_complete_application_state",
                                ~fails.save, 0, closed.sh),
                           Step("shutdown_global_data_bus", ~fails.bus, 0, closed.sh),
                           Step("quit", TRUE, 0, closed.sh)>>,
            !.bus_down = @ \/ ~fails.bus,
            !.quit = TRUE]

\* the sequence initiate_application_shutdown runs when the flag is not set
shutdown_sequence(run, fails) ==
    LET flagged == [run.sh EXCEPT !.window_hierarchy.shutdown_in_progress = TRUE]
        started == [run EXCEPT
                       !.sh = flagged,
                       !.file = written(@, fails.save,
                                        save_complete_application_state(flagged)),
                       !.log = @ \o <<Step("shutdown_initiated", TRUE, 0, flagged),
                                      Step("save_complete_application_state",
                                           ~fails.save, 0, flagged),
                                      Step("all_windows_closing", TRUE, 0, flagged)>>]
        closed == close_detached_windows(
                      started, flagged.window_hierarchy.detached_windows, 1, fails)
    IN  [closed EXCEPT
            !.log = @ \o <<Step("shutdown_global_data_bus", ~fails.bus, 0, closed.sh),
                           Step("quit", TRUE, 0, closed.sh)>>,
            !.bus_down = @ \/ ~fails.bus,
            !.quit = TRUE]

\* variant: the sequence runs at every call
initiate_application_shutdown_Again(run, fails) == shutdown_sequence(run, fails)

\* WindowHierarchy.initiate_application_shutdown
initiate_application_shutdown(run, fails) ==
    IF run.sh.window_hierarchy.shutdown_in_progress
    THEN run
    ELSE shutdown_sequence(run, fails)

\* Notebook.closeEvent: save_session writes the session file, then
\* initiate_application_shutdown is called
Notebook_closeEvent(run, fails) ==
    initiate_application_shutdown(
        [run EXCEPT !.file = <<save_session(run.sh)>>], fails)

\* enhanced_close_event, which register_main_window puts in the place of
\* the closeEvent of the main window, and Notebook.closeEvent, which it
\* calls
enhanced_close_event(run, fails) ==
    Notebook_closeEvent(
        IF run.sh.window_hierarchy.shutdown_in_progress
        THEN run
        ELSE initiate_application_shutdown(run, fails),
        fails)

\* the run a handler starts from
Running ==
    [sh |-> Shell, log |-> app.log, quit |-> app.quit, bus_down |-> FALSE,
     file |-> app.file]

\* the steps that may raise in a handler
Failures ==
    [save : BOOLEAN, close : SUBSET WindowIds, bus : BOOLEAN]

\* a handler has taken the application to run: shutdown_global_data_bus
\* calls shutdown on the bus
Reaches(run) ==
    /\ Becomes(run.sh)
    /\ app' = [app EXCEPT !.quit = run.quit, !.log = run.log, !.file = run.file]
    /\ IF run.bus_down
       THEN /\ shutdown
            /\ handle_order' = handles_after(last', handle_order)
            /\ UNCHANGED calls
       ELSE UNCHANGED bus_side
    /\ UNCHANGED <<active_drag, created_tabs, pointer, notebook>>

\* what a call of initiate_application_shutdown did
Outcome(flag) == IF flag THEN "returned" ELSE "ran"

\* a direct call of window_hierarchy.initiate_application_shutdown()
initiate_shutdown(fails) ==
    /\ PointerFree
    /\ window_hierarchy.shutdown_in_progress =>
          fails = [save |-> FALSE, close |-> {}, bus |-> FALSE]
    /\ \A w \in fails.close : ListHas(window_hierarchy.detached_windows, w)
    /\ Reaches(initiate_application_shutdown(Running, fails))
    /\ event' = Shown("initiate_application_shutdown", Main,
                      <<Outcome(window_hierarchy.shutdown_in_progress)>>)

\* the main window is closed: a close event is delivered to it
main_closeEvent(fails) ==
    /\ ~app.quit
    /\ PointerFree
    /\ window_hierarchy.shutdown_in_progress =>
          fails = [save |-> FALSE, close |-> {}, bus |-> FALSE]
    /\ \A w \in fails.close : ListHas(window_hierarchy.detached_windows, w)
    /\ Reaches(enhanced_close_event(Running, fails))
    /\ event' = Shown("closeEvent", Main,
                      IF window_hierarchy.shutdown_in_progress
                      THEN <<"returned">>
                      ELSE <<"ran", "returned">>)

\* run_application after quit(): app.exec() returns and the finally clause
\* saves the session of the main window
run_application_finally ==
    /\ app.quit
    /\ ~app.exited
    /\ app' = [app EXCEPT !.file = <<save_session(Shell)>>, !.exited = TRUE]
    /\ UNCHANGED <<bus_side, tab_widgets, windows, window_hierarchy, active_drag,
                   created_tabs, pointer, event, notebook>>

\* an event the event loop delivers: none is delivered after quit()
Handle(handler) ==
    /\ ~app.quit
    /\ handler
    /\ UNCHANGED <<bus_side, app, notebook>>

NextShell ==
    \/ \E tab_type \in TabTypes : Handle(new_tab(tab_type))
    \/ \E index \in 0..MaxTabs :
          index < count(Shell, Main) /\ Handle(close_tab(index))
    \/ \E strip \in Strips, button \in Buttons, tab_index \in -1..MaxTabs :
          tab_index < count(Shell, strip) /\ Handle(mousePressEvent(strip, button, tab_index))
    \/ \E strip \in Strips, drag_distance \in Distances, within \in BOOLEAN,
          slot \in 0..(MaxTabs + 1), over \in {<<>>} \cup {<<other>> : other \in Strips} :
          Handle(mouseMoveEvent(strip, drag_distance >= drag_threshold, within, slot, over))
    \/ \E strip \in Strips, button \in Buttons, raises \in BOOLEAN :
          Handle(mouseReleaseEvent(strip, button, raises))
    \/ \E w \in WindowIds, tab_type \in {"spreadsheet", "fitting"} :
          Handle(create_new_tab(w, tab_type))
    \/ \E w \in WindowIds, current_index \in 0..MaxTabs :
          Handle(reattach_current_tab(w, current_index))
    \/ \E w \in WindowIds : Handle(reattach_all_tabs(w))
    \/ \E w \in WindowIds : Handle(close_window(w))
    \/ \E session \in Sessions : Handle(load_session(session))
    \/ \E strip \in Strips, on_tab_bar \in BOOLEAN, insert_index \in 0..MaxTabs :
          Handle(dropEvent(strip, on_tab_bar, insert_index))

SpecShell == Init /\ [][NextShell]_vars

\* the shell with room for MaxNestedWindows detached windows, driven with
\* the left button alone, every drag going straight out of the tab bar and
\* being released there
InitWindows == InitWith(MaxNestedWindows)

NextWindows ==
    \/ \E tab_type \in TabTypes : Handle(new_tab(tab_type))
    \/ \E strip \in Strips, tab_index \in 0..MaxTabs :
          tab_index < count(Shell, strip) /\ Handle(mousePressEvent(strip, "Left", tab_index))
    \/ \E strip \in Strips, over \in {<<>>} \cup {<<other>> : other \in Strips} :
          Handle(mouseMoveEvent(strip, TRUE, FALSE, 0, over))
    \/ \E strip \in Strips : Handle(mouseReleaseEvent(strip, "Left", FALSE))
    \/ \E w \in WindowIds, tab_type \in {"spreadsheet", "fitting"} :
          Handle(create_new_tab(w, tab_type))
    \/ \E w \in WindowIds, current_index \in 0..MaxTabs :
          Handle(reattach_current_tab(w, current_index))
    \/ \E w \in WindowIds : Handle(reattach_all_tabs(w))
    \/ \E w \in WindowIds : Handle(close_window(w))
    \/ \E fails \in Failures : initiate_shutdown(fails)
    \/ \E fails \in Failures : main_closeEvent(fails)
    \/ run_application_finally

SpecWindows == InitWindows /\ [][NextWindows]_vars

(***************************************************************************)
(* The global drag manager, called as its interface allows: nothing in the *)
(* shell calls register_drag, so a drag is registered here by a caller of  *)
(* the manager, for the DragOperation a tab bar holds.                     *)
(***************************************************************************)
\* GlobalDragManager.all_tab_widgets: the main strip and the strip of every
\* detached window constructed so far (no strip is ever taken off the list)
all_tab_widgets(sh) ==
    {strip \in DOMAIN sh.tab_widgets :
        IF strip = Main THEN TRUE ELSE sh.windows[strip].exists}

\* DetachableTabWidget.set_external_drag_mode
set_external_drag_mode(tab_widget, enabled, drag_op) ==
    [tab_widget EXCEPT !.external_drag_mode = enabled,
                       !.current_external_drag = drag_op]

\* GlobalDragManager.register_drag, on the strips: every registered tab
\* widget but the source of the drag enters the external drag mode
register_drag(sh, drag_op) ==
    [sh EXCEPT !.tab_widgets =
        [strip \in DOMAIN @ |->
            IF strip \in all_tab_widgets(sh) /\ strip # drag_op.source_widget
            THEN set_external_drag_mode(@[strip], TRUE, <<drag_op>>)
            ELSE @[strip]]]

\* a call of GlobalDragManager.register_drag with the DragOperation of the
\* tab bar that has the pointer
manager_register_drag(strip) ==
    /\ pointer.grab = <<strip>>
    /\ tab_widgets[strip].current_drag # <<>>
    /\ active_drag' = tab_widgets[strip].current_drag
    /\ Becomes(register_drag(Shell, tab_widgets[strip].current_drag[1]))
    /\ event' = Shown("register_drag", strip, <<>>)
    /\ UNCHANGED <<created_tabs, pointer>>

\* a call of GlobalDragManager.complete_drag
manager_complete_drag ==
    /\ Becomes(complete_drag(Shell))
    /\ active_drag' = <<>>
    /\ event' = Shown("complete_drag", Main, <<>>)
    /\ UNCHANGED <<created_tabs, pointer>>

NextDrag ==
    \/ Handle(new_tab("spreadsheet"))
    \/ \E strip \in Strips, tab_index \in 0..MaxTabs :
          tab_index < count(Shell, strip) /\ Handle(mousePressEvent(strip, "Left", tab_index))
    \/ \E strip \in Strips : Handle(mouseMoveEvent(strip, TRUE, FALSE, 0, <<>>))
    \/ \E strip \in Strips : Handle(mouseReleaseEvent(strip, "Left", FALSE))
    \/ \E w \in WindowIds : Handle(reattach_all_tabs(w))
    \/ \E strip \in Strips : Handle(manager_register_drag(strip))
    \/ Handle(manager_complete_drag)
    \/ \E strip \in Strips, on_tab_bar \in BOOLEAN, insert_index \in 0..1 :
          Handle(dropEvent(strip, on_tab_bar, insert_index))

SpecDrag == Init /\ [][NextDrag]_vars

(***************************************************************************)
(* The tabs and the bus: every spreadsheet or fitting tab is a             *)
(* DataBusEnabledTab, which registers itself on the global bus under its   *)
(* tab_id when it is constructed.                                          *)
(***************************************************************************)
\* the tab types whose widget is a DataBusEnabledTab
DataBusEnabled == {"spreadsheet", "fitting"}

\* the f-string f"{tab_type}_{n}"
tab_id_of(tab_type, n) == tab_type \o "_" \o n

\* int(time.time()) as the f-string prints it: the clock of the model
\* counts the seconds since the shell started, the number printed is that
\* many seconds after the start's own time, which no counter reaches
time_time(seconds) == "start+" \o ToString(seconds)

\* a tab widget: a SolverTab or MonteCarloTab has no tab_id
TabWidget(tab_type, tab_id) ==
    [tab_type |-> tab_type,
     tab_id |-> IF tab_type \in DataBusEnabled THEN <<tab_id>> ELSE <<>>]

\* DataBusEnabledTab._connect_to_data_bus: the widget registers
\* _handle_data_received, which catches what its handlers raise
connect_to_data_bus(tab_id, tab_type) ==
    /\ calls' = calls + 1
    /\ register_tab(tab_id, tab_type, "ok")
    /\ handle_order' = handles_after(last', handle_order)

\* the construction of the widget of a tab
construct(tab_type, tab_id, tab_id_counter) ==
    /\ ~app.quit
    /\ notebook' = [notebook EXCEPT !.tab_id_counter = tab_id_counter,
                                    !.widgets = Append(@, TabWidget(tab_type, tab_id))]
    /\ IF tab_type \in DataBusEnabled
       THEN connect_to_data_bus(tab_id, tab_type)
       ELSE UNCHANGED bus_side
    /\ UNCHANGED app

\* Notebook.new_tab with the widget it constructs: the tab_id is made of
\* the type and the counter, and the counter goes up
Notebook_new_tab(tab_type) ==
    /\ new_tab(tab_type)
    /\ construct(tab_type, tab_id_of(tab_type, ToString(notebook.tab_id_counter)),
                 notebook.tab_id_counter + 1)

\* DetachedWindow._create_new_tab with the widget it constructs: the tab_id
\* is made of the type and int(time.time())
DetachedWindow_create_new_tab(w, tab_type) ==
    /\ create_new_tab(w, tab_type)
    /\ construct(tab_type, tab_id_of(tab_type, time_time(notebook.time)),
                 notebook.tab_id_counter)

\* a second passes
time_passes ==
    /\ ~app.quit
    /\ notebook.time < MaxSeconds
    /\ notebook' = [notebook EXCEPT !.time = @ + 1]
    /\ UNCHANGED <<bus_side, tab_widgets, windows, window_hierarchy, active_drag,
                   created_tabs, pointer, event, app>>

\* the tab states of a session file: one as get_state writes it, with the
\* tab_id the first tab of a run is given, and one without a tab_id
TabStates ==
    {[type |-> "spreadsheet", tab_id |-> <<"spreadsheet_1">>],
     [type |-> "fitting", tab_id |-> <<>>]}

\* Notebook.load_session on a file of this version with one tab state in
\* the main window, with the widget create_tab_from_state constructs: the
\* tab_id is the one of the state, or else made of the type and the
\* counter, and only then the counter goes up
Notebook_load_session(state) ==
    /\ load_session([file |-> "current", main |-> <<"home", state.type>>,
                     detached |-> <<>>])
    /\ construct(state.type,
                 IF state.tab_id # <<>>
                 THEN state.tab_id[1]
                 ELSE tab_id_of(state.type, ToString(notebook.tab_id_counter)),
                 IF state.tab_id # <<>>
                 THEN notebook.tab_id_counter
                 ELSE notebook.tab_id_counter + 1)

\* the pages the strips of the open windows hold
hosted(sh) ==
    UNION {{sh.tab_widgets[strip].pages[i] : i \in DOMAIN sh.tab_widgets[strip].pages} :
              strip \in {t \in DOMAIN sh.tab_widgets :
                            IF t = Main THEN TRUE ELSE sh.windows[t].visible}}
        \ {Home}

\* a call the widget of a tab on screen makes on the bus under its tab_id;
\* the registrations of the tabs are calls too, and a run of the tabs makes
\* one call fewer than a run of the bus alone
TabCalls(page, method) ==
    /\ ~app.quit
    /\ page \in hosted(Shell)
    /\ notebook.widgets[page].tab_id # <<>>
    /\ CallWithin(MaxCalls - 1, method)

\* DataBusEnabledTab.subscribe_to_data_type
tab_subscribe_to_data_type(page, data_type) ==
    TabCalls(page, subscribe_to_data_type(notebook.widgets[page].tab_id[1], data_type))

\* DataBusEnabledTab.publish_data
tab_publish_data(page, data_type, data) ==
    TabCalls(page, publish_data(notebook.widgets[page].tab_id[1], data_type, data))

NextTabs ==
    \/ \E tab_type \in TabTypes : Notebook_new_tab(tab_type)
    \/ \E w \in WindowIds, tab_type \in DataBusEnabled :
          DetachedWindow_create_new_tab(w, tab_type)
    \/ time_passes
    \/ \E state \in TabStates : Notebook_load_session(state)
    \/ \E index \in 0..MaxTabs :
          index < count(Shell, Main) /\ Handle(close_tab(index))
    \/ \E strip \in Strips, tab_index \in 0..MaxTabs :
          tab_index < count(Shell, strip) /\ Handle(mousePressEvent(strip, "Left", tab_index))
    \/ \E strip \in Strips : Handle(mouseMoveEvent(strip, TRUE, FALSE, 0, <<>>))
    \/ \E strip \in Strips : Handle(mouseReleaseEvent(strip, "Left", FALSE))
    \/ \E w \in WindowIds : Handle(reattach_all_tabs(w))
    \/ \E w \in WindowIds : Handle(close_window(w))
    \/ \E page \in 1..MaxTabs :
          page <= Len(notebook.widgets) /\ tab_subscribe_to_data_type(page, "test")
    \/ \E page \in 1..MaxTabs :
          page <= Len(notebook.widgets)
          /\ tab_publish_data(page, "test", [py_type |-> "str"])

SpecTabs == Init /\ [][NextTabs]_vars

\* the shell with spreadsheet tabs that subscribe to "test", dragged out of
\* their strips into detached windows, the windows closed or reattached,
\* and the main window closed, which shuts the bus down
NoFailure == [save |-> FALSE, close |-> {}, bus |-> FALSE]

NextTables ==
    \/ Notebook_new_tab("spreadsheet")
    \/ \E page \in 1..MaxTabs :
          page <= Len(notebook.widgets) /\ tab_subscribe_to_data_type(page, "test")
    \/ \E strip \in Strips, tab_index \in 0..MaxTabs :
          tab_index < count(Shell, strip) /\ Handle(mousePressEvent(strip, "Left", tab_index))
    \/ \E strip \in Strips : Handle(mouseMoveEvent(strip, TRUE, FALSE, 0, <<>>))
    \/ \E strip \in Strips : Handle(mouseReleaseEvent(strip, "Left", FALSE))
    \/ \E w \in WindowIds : Handle(reattach_all_tabs(w))
    \/ \E w \in WindowIds : Handle(close_window(w))
    \/ main_closeEvent(NoFailure)

SpecTables == Init /\ [][NextTables]_vars

(***************************************************************************)
(* Helpers of the properties.                                              *)
(***************************************************************************)
\* a step that is a call of method op
Called(op) == calls' = calls + 1 /\ last'.op = op

\* how many times tab_id's callback was called by the last call
TimesInvoked(tab_id) ==
    Cardinality({i \in DOMAIN last.invoked : last.invoked[i].tab_id = tab_id})

\* how many times the last call emitted signal (a list of tab ids) for tab_id
TimesSignalled(signal, tab_id) ==
    Cardinality({i \in DOMAIN signal : signal[i] = tab_id})

Subscriptions(tab_id) ==
    IF DictHas(subscription_map, tab_id) THEN DictGet(subscription_map, tab_id) ELSE <<>>

LastPublishAccepted == last.op = "publish_data" /\ last.ret = "True"

\* the last n elements of s (all of s when it is shorter)
LastN(s, n) == IF Len(s) <= n THEN s ELSE SubSeq(s, Len(s) - n + 1, Len(s))

\* a filter that returns False for every message is registered
HasBlockingFilter == \E i \in DOMAIN data_filters : data_filters[i].value = "block"

\* the payload of the publish call seen passes validation
ValidPublication(seen) ==
    ~(seen.arg \in {"dataframe", "numpy_array", "parameters"} /\ seen.extra.py_type # "dict")

\* the positions of tab_id's handles in a registry
HandlesOf(tabs, tab_id) == {i \in DOMAIN tabs : tabs[i].key = tab_id}

\* how many times data_type occurs in tab_id's subscription list
TimesSubscribed(map, tab_id, data_type) ==
    IF DictHas(map, tab_id)
    THEN Cardinality({i \in DOMAIN DictGet(map, tab_id) :
                         DictGet(map, tab_id)[i] = data_type})
    ELSE 0

(***************************************************************************)
(* C1. Delivery correctness: after a publish of data type T from tab A     *)
(* that returned True, every other registered tab B subscribed to T had    *)
(* its callback called exactly once, with the published message (a B       *)
(* registered without a callback got exactly one data_received signal      *)
(* instead), and A's own callback was not called and A got no              *)
(* data_received, whether or not A is subscribed to T.                     *)
(***************************************************************************)
C1_DeliveryCorrectness ==
    LastPublishAccepted =>
        /\ TimesInvoked(last.id) = 0
        /\ TimesSignalled(last.received, last.id) = 0
        /\ \A B \in DictKeys(registered_tabs) \ {last.id} :
              ListHas(Subscriptions(B), last.arg) =>
                 IF DictGet(registered_tabs, B).callback = "None"
                 THEN TimesInvoked(B) = 0 /\ TimesSignalled(last.received, B) = 1
                 ELSE /\ TimesInvoked(B) = 1
                      /\ \A i \in DOMAIN last.invoked :
                            last.invoked[i].tab_id = B =>
                               /\ last.invoked[i].message =
                                     message_history[Len(message_history)]
                               /\ last.invoked[i].message.source_tab_id = last.id
                               /\ last.invoked[i].message.data_type = last.arg

\* A published T while both A and some B with a callback are subscribed to T
C1_Witness ==
    /\ LastPublishAccepted
    /\ ListHas(Subscriptions(last.id), last.arg)
    /\ \E B \in DictKeys(registered_tabs) \ {last.id} :
          /\ ListHas(Subscriptions(B), last.arg)
          /\ DictGet(registered_tabs, B).callback = "ok"
          /\ TimesInvoked(B) = 1

(***************************************************************************)
(* C2. No-subscription isolation: a tab whose subscription set does not    *)
(* contain the data type of a publish gets nothing from that publish: its  *)
(* callback is not called and no data_received or delivery error names it. *)
(***************************************************************************)
C2_NoSubscriptionIsolation ==
    last.op = "publish_data" =>
        \A B \in TabIds :
           ~ListHas(Subscriptions(B), last.arg) =>
               /\ TimesInvoked(B) = 0
               /\ TimesSignalled(last.received, B) = 0
               /\ (last.ret = "True" => TimesSignalled(last.errors, B) = 0)

\* an accepted publish of T while another registered tab is subscribed, but
\* only to another data type
C2_Witness ==
    /\ LastPublishAccepted
    /\ \E B \in DictKeys(registered_tabs) \ {last.id} :
          /\ Subscriptions(B) # <<>>
          /\ ~ListHas(Subscriptions(B), last.arg)
          /\ TimesInvoked(B) = 0

(***************************************************************************)
(* C3. History bound: the history never holds more than                    *)
(* max_message_history messages, and get_message_history() is exactly the  *)
(* last max_message_history accepted messages, oldest first, newest last,  *)
(* none of them twice.                                                     *)
(***************************************************************************)
C3_HistoryBound ==
    LET history == get_message_history(<<>>)
    IN  /\ Len(history) <= max_message_history
        /\ [i \in DOMAIN history |-> history[i].timestamp] =
              LastN(accepted, max_message_history)
        /\ \A i, j \in DOMAIN history :
              i < j => history[i].timestamp < history[j].timestamp
        /\ \A i, j \in DOMAIN history : i # j => history[i] # history[j]

\* more publishes were accepted than the history holds
C3_Witness ==
    /\ Len(accepted) > max_message_history
    /\ Len(get_message_history(<<>>)) = max_message_history

C5_ValidationFailure ==
    [][(/\ Called("publish_data")
        /\ is_active
        /\ DictHas(registered_tabs, last'.id)
        /\ ~ValidPublication(last')) =>
          /\ last'.ret = "False"
          /\ last'.errors = <<last'.id>>
          /\ message_history' = message_history
          /\ accepted' = accepted
          /\ registered_tabs' = registered_tabs
          /\ subscription_map' = subscription_map
          /\ last'.invoked = <<>>
          /\ last'.received = <<>>]_vars

\* an invalid publish was rejected while another tab was subscribed to its
\* data type
C5_Witness ==
    /\ last.op = "publish_data"
    /\ last.ret = "False"
    /\ last.errors = <<last.id>>
    /\ ~ValidPublication(last)
    /\ \E B \in DictKeys(registered_tabs) \ {last.id} :
          ListHas(Subscriptions(B), last.arg)

(***************************************************************************)
(* C6. Unregistered publisher: a publish whose source tab id is not        *)
(* registered returns False, changes neither the history nor any counter   *)
(* and delivers nothing; after unregister_tab(x), get_registered_tabs()    *)
(* does not contain x.                                                     *)
(***************************************************************************)
C6_UnregisteredPublish ==
    [][/\ (Called("publish_data") /\ ~DictHas(registered_tabs, last'.id)) =>
             /\ last'.ret = "False"
             /\ UNCHANGED bus
             /\ accepted' = accepted
             /\ last'.invoked = <<>>
             /\ last'.received = <<>>
             /\ last'.errors = <<>>
       /\ Called("unregister_tab") =>
             last'.id \notin DOMAIN get_registered_tabs']_vars

\* a tab that published earlier was unregistered and its next publish failed
C6_Witness ==
    /\ last.op = "publish_data"
    /\ last.ret = "False"
    /\ is_active
    /\ ~DictHas(registered_tabs, last.id)
    /\ \E i \in DOMAIN message_history : message_history[i].source_tab_id = last.id

(***************************************************************************)
(* C7. unregister_tab(x) returns False and changes nothing when x is not   *)
(* registered; when x is registered it returns True and removes x's        *)
(* handle, x's subscription entry and every filter whose key starts with   *)
(* x followed by "_"; a later registration of x has an empty subscription  *)
(* list.                                                                   *)
(***************************************************************************)
C7_UnregisterCleanup ==
    [][/\ Called("unregister_tab") =>
             IF ~DictHas(registered_tabs, last'.id)
             THEN last'.ret = "False" /\ UNCHANGED bus
             ELSE /\ last'.ret = "True"
                  /\ ~DictHas(registered_tabs', last'.id)
                  /\ ~DictHas(subscription_map', last'.id)
                  /\ \A k \in DictKeys(data_filters') :
                        ~StartsWith(k, last'.id \o "_")
       /\ (/\ Called("register_tab")
           /\ last'.ret = "True"
           /\ ~DictHas(registered_tabs, last'.id)) =>
             DictGet(subscription_map', last'.id) = <<>>]_vars

\* a registered tab was unregistered: a filter namespaced to it was removed
\* and a filter of another namespace was kept
C7_Witness ==
    /\ last.op = "unregister_tab"
    /\ last.ret = "True"
    /\ last.filters_removed # <<>>
    /\ data_filters # <<>>
    /\ registered_tabs # <<>>

(***************************************************************************)
(* C8. Inactive bus: while is_active is false no call routes a message to  *)
(* any subscriber, and register_tab and publish_data return False and      *)
(* leave the registry, the subscription table, the history and the         *)
(* counters unchanged.                                                     *)
(***************************************************************************)
C8_InactiveBus ==
    [][~is_active =>
          /\ calls' # calls => last'.invoked = <<>> /\ last'.received = <<>>
          /\ (Called("register_tab") \/ Called("publish_data")) =>
                /\ last'.ret = "False"
                /\ UNCHANGED bus
                /\ accepted' = accepted]_vars

\* a registered tab published on a deactivated bus while another tab was
\* subscribed to the data type
C8_Witness ==
    /\ last.op = "publish_data"
    /\ ~is_active
    /\ DictHas(registered_tabs, last.id)
    /\ \E B \in DictKeys(registered_tabs) \ {last.id} :
          ListHas(Subscriptions(B), last.arg)

(***************************************************************************)
(* C9. Re-registration: register_tab on an active bus returns True and     *)
(* leaves a handle for the id with the given type and callback; if the id  *)
(* already had a subscription entry the subscription table is unchanged,   *)
(* otherwise an empty entry is added for it.  No id ever has two handles.  *)
(***************************************************************************)
C9_ReRegistration ==
    [][/\ (Called("register_tab") /\ is_active) =>
             /\ last'.ret = "True"
             /\ DictHas(registered_tabs', last'.id)
             /\ DictGet(registered_tabs', last'.id).tab_type = last'.arg
             /\ DictGet(registered_tabs', last'.id).callback = last'.extra
             /\ IF DictHas(subscription_map, last'.id)
                THEN subscription_map' = subscription_map
                ELSE subscription_map' =
                        Append(subscription_map, [key |-> last'.id, value |-> <<>>])
       /\ \A tab_id \in TabIds :
             Cardinality(HandlesOf(registered_tabs', tab_id)) <= 1]_vars

\* an id was registered again with another callback and kept its subscriptions
C9_Witness ==
    /\ last.op = "register_tab"
    /\ last.ret = "True"
    /\ Subscriptions(last.id) # <<>>
    /\ DictGet(registered_tabs, last.id).callback = "raises"

(***************************************************************************)
(* C10. subscribe_to_data_type(t, d) returns True exactly when t is        *)
(* registered and d is not in t's subscription list, and then appends d;   *)
(* unsubscribe_from_data_type(t, d) returns True exactly when d is in t's  *)
(* list, and then removes it; a call that returns False leaves the         *)
(* subscription table unchanged; no list ever holds a data type twice.     *)
(***************************************************************************)
C10_SubscribeUnsubscribe ==
    [][/\ Called("subscribe_to_data_type") =>
             /\ last'.ret = "True" <=>
                   /\ DictHas(registered_tabs, last'.id)
                   /\ TimesSubscribed(subscription_map, last'.id, last'.arg) = 0
             /\ last'.ret = "True" =>
                   TimesSubscribed(subscription_map', last'.id, last'.arg) = 1
             /\ last'.ret = "False" => subscription_map' = subscription_map
       /\ Called("unsubscribe_from_data_type") =>
             /\ last'.ret = "True" <=>
                   TimesSubscribed(subscription_map, last'.id, last'.arg) > 0
             /\ last'.ret = "True" =>
                   TimesSubscribed(subscription_map', last'.id, last'.arg) = 0
             /\ last'.ret = "False" => subscription_map' = subscription_map
       /\ \A tab_id \in TabIds, data_type \in DataTypes :
             TimesSubscribed(subscription_map', tab_id, data_type) <= 1]_vars

\* a registered tab subscribed a second time to a data type it already had
C10_Witness ==
    /\ last.op = "subscribe_to_data_type"
    /\ last.ret = "False"
    /\ DictHas(registered_tabs, last.id)
    /\ TimesSubscribed(subscription_map, last.id, last.arg) = 1

(***************************************************************************)
(* Delivery order.                                                         *)
(***************************************************************************)
\* the ids of the tabs whose callbacks a call invoked, in invocation order
Recipients(seen) == [i \in DOMAIN seen.invoked |-> seen.invoked[i].tab_id]

\* the ids of the registry, in the order of the registry
RegistryOrder == [i \in DOMAIN registered_tabs |-> registered_tabs[i].key]

\* the elements of ids appear in order, in the same relative order
InOrderOf(ids, order) ==
    \A i, j \in DOMAIN ids :
        i < j => \E p, q \in DOMAIN order :
                    p < q /\ order[p] = ids[i] /\ order[q] = ids[j]

\* the statement of C11 read on the handles: the recipients of an accepted
\* publish are invoked in the order in which their current handles were
\* registered, a re-registration registering a new handle
C11_HandleRegistrationOrder ==
    LastPublishAccepted => InOrderOf(Recipients(last), handle_order)

(***************************************************************************)
(* C11, amended.  The recipients of an accepted publish are invoked in the *)
(* order in which their ids entered the registry: an id takes the last     *)
(* place when it is registered while not registered, keeps its place when  *)
(* it is registered again while still registered (the new handle replaces  *)
(* the old one in place), and leaves its place when it is unregistered.    *)
(***************************************************************************)
C11_DeliveryOrder ==
    LastPublishAccepted => InOrderOf(Recipients(last), RegistryOrder)

\* a publish reached two recipients after one of them had registered again,
\* so that the older place holds the newer handle
C11_Witness ==
    /\ LastPublishAccepted
    /\ Len(last.invoked) >= 2
    /\ handle_order # RegistryOrder

\* the tabs the routing loop reaches for a publish call: the registered
\* tabs other than the source that are subscribed to the data type
RecipientsOf(seen) ==
    {t \in DictKeys(registered_tabs) \ {seen.id} :
        ListHas(Subscriptions(t), seen.arg)}

\* the recipients of a publish call whose callback raises
RaisingRecipientsOf(seen) ==
    {t \in RecipientsOf(seen) : DictGet(registered_tabs, t).callback = "raises"}

(***************************************************************************)
(* C12. When the callback of a recipient raises while a message is routed, *)
(* one transmission_error naming that recipient is emitted, every other    *)
(* subscribed recipient still gets the message (exactly once), publish_data*)
(* returns True, the message is the newest entry of the history and the    *)
(* message_count of the source has grown by one.                           *)
(***************************************************************************)
C12_CallbackFailureIsolated ==
    [][/\ Called("publish_data")
       /\ is_active
       /\ DictHas(registered_tabs, last'.id)
       /\ ValidPublication(last')
       /\ ~HasBlockingFilter
       /\ RaisingRecipientsOf(last') # {}
       => /\ last'.ret = "True"
          /\ \A t \in RecipientsOf(last') :
                IF t \in RaisingRecipientsOf(last')
                THEN /\ TimesSignalled(last'.errors, t) = 1
                     /\ TimesSignalled(last'.received, t) = 0
                ELSE /\ TimesSignalled(last'.errors, t) = 0
                     /\ TimesSignalled(last'.received, t) = 1
                     /\ DictGet(registered_tabs, t).callback = "ok" =>
                           \E i \in DOMAIN last'.invoked :
                              /\ last'.invoked[i].tab_id = t
                              /\ last'.invoked[i].message =
                                    message_history'[Len(message_history')]
                              /\ \A j \in DOMAIN last'.invoked :
                                    last'.invoked[j].tab_id = t => j = i
          /\ \A t \in RoutingTabIds \cup TabIds :
                t \notin RecipientsOf(last') => TimesSignalled(last'.errors, t) = 0
          /\ message_history' # <<>>
          /\ message_history'[Len(message_history')].source_tab_id = last'.id
          /\ message_history'[Len(message_history')].data_type = last'.arg
          /\ message_history'[Len(message_history')].timestamp = now'
          /\ accepted' = Append(accepted, now')
          /\ DictGet(registered_tabs', last'.id).message_count =
                DictGet(registered_tabs, last'.id).message_count + 1]_vars

\* a publish reached a recipient whose callback raised and, after it, a
\* recipient whose callback returned
C12_Witness ==
    /\ LastPublishAccepted
    /\ last.errors = <<"b">>
    /\ Len(last.invoked) = 2
    /\ last.invoked[1].tab_id = "b"
    /\ last.received = <<last.invoked[2].tab_id>>
    /\ message_history[Len(message_history)] = last.invoked[2].message

(***************************************************************************)
(* The filter chain.                                                       *)
(***************************************************************************)
\* the ids of the filter table, in the order of the table
FilterOrder == [i \in DOMAIN data_filters |-> data_filters[i].key]

\* what each filter of the table does when it is called, in that order
FilterOutcomes ==
    [i \in DOMAIN data_filters |-> filter_func_call(data_filters[i].value, <<>>)]

\* the first n ids of the filter table, where n is the place of the first
\* filter whose outcome is in stopping (all the ids if there is none)
RunUntil(stopping) ==
    LET hits == {i \in DOMAIN FilterOutcomes : FilterOutcomes[i] \in stopping}
    IN  IF hits = {}
        THEN FilterOrder
        ELSE SubSeq(FilterOrder, 1, CHOOSE i \in hits : \A j \in hits : i <= j)

\* a step that is a publish_data call whose message passes validation
ValidatedPublish ==
    /\ Called("publish_data")
    /\ is_active
    /\ DictHas(registered_tabs, last'.id)
    /\ ValidPublication(last')

\* a step that leaves no trace of a message: nothing recorded, nothing routed
NothingPublished ==
    /\ message_history' = message_history
    /\ registered_tabs' = registered_tabs
    /\ last'.invoked = <<>>
    /\ last'.received = <<>>

\* the statement of C13 with "passed" read as "returned true": a validated
\* publish is accepted only if every filter returned true, and evaluation
\* stops at the first filter that did not (it returned false or raised)
C13_EveryFilterPassed ==
    [][ValidatedPublish =>
          /\ last'.ret = "True" =>
                \A i \in DOMAIN FilterOutcomes : FilterOutcomes[i] = "True"
          /\ last'.filters_run = RunUntil({"False", "raise"})
          /\ last'.filters_run # FilterOrder => last'.ret = "False"]_vars

(***************************************************************************)
(* C13, amended.  A validated publish is recorded and routed only if no    *)
(* registered filter returned false for it.  Filters are called in the     *)
(* order of the filter table (the order in which their ids were added);    *)
(* the first filter that returns false ends the evaluation, no later       *)
(* filter is called, publish_data returns False and nothing is recorded or *)
(* routed.  A filter that raises is passed over: the next filters are      *)
(* still called and the publish is accepted unless one returns false.      *)
(***************************************************************************)
C13_FilterGate ==
    [][ValidatedPublish =>
          /\ last'.ret = "True" <=>
                \A i \in DOMAIN FilterOutcomes : FilterOutcomes[i] # "False"
          /\ last'.filters_run = RunUntil({"False"})
          /\ last'.ret = "False" => NothingPublished
          /\ last'.ret = "True" =>
                /\ message_history' # <<>>
                /\ message_history'[Len(message_history')].timestamp = now'
                /\ accepted' = Append(accepted, now')]_vars

\* a validated publish was stopped by the first of two filters
C13_Witness ==
    /\ last.op = "publish_data"
    /\ last.ret = "False"
    /\ Len(data_filters) = 2
    /\ last.filters_run = <<FilterOrder[1]>>

\* a validated publish was accepted although a filter raised
C13_WitnessRaise ==
    /\ LastPublishAccepted
    /\ \E i \in DOMAIN FilterOutcomes : FilterOutcomes[i] = "raise"

\* the bus as shutdown leaves it
ShutDown ==
    /\ ~is_active
    /\ registered_tabs = <<>>
    /\ subscription_map = <<>>
    /\ message_history = <<>>

(***************************************************************************)
(* C14. shutdown() leaves no registered tab, no subscription, no filter,   *)
(* an empty history and is_active false.  From then on the bus stays       *)
(* inactive, every register_tab and publish_data call returns False, and   *)
(* the registry, the subscription table and the history stay empty.        *)
(***************************************************************************)
C14_Shutdown ==
    [][/\ Called("shutdown") => ShutDown' /\ data_filters' = <<>>
       /\ ShutDown =>
             /\ ShutDown'
             /\ (Called("register_tab") \/ Called("publish_data")) =>
                   /\ last'.ret = "False"
                   /\ last'.invoked = <<>>
                   /\ last'.received = <<>>]_vars

\* shutdown was called on a bus that had a registered tab which had
\* published
C14_Witness ==
    /\ last.op = "shutdown"
    /\ now > 0
    /\ ShutDown

(***************************************************************************)
(* Statistics.                                                             *)
(***************************************************************************)
\* the sum of f over the set S
RECURSIVE SetSum(_, _)
SetSum(f, S) ==
    IF S = {}
    THEN 0
    ELSE LET x == CHOOSE y \in S : TRUE
         IN  f[x] + SetSum(f, S \ {x})

\* the message_count of tab_id's handle in a registry, 0 without a handle
CountOf(tabs, tab_id) ==
    IF DictHas(tabs, tab_id) THEN DictGet(tabs, tab_id).message_count ELSE 0

(***************************************************************************)
(* C15. get_bus_statistics() describes the state the bus is in when it is  *)
(* called: is_active is the flag, total_registered_tabs the number of      *)
(* registered ids, total_subscriptions the number of (tab, data type)      *)
(* subscriptions held, message_history_size the number of messages in the  *)
(* history, active_filters the number of filter ids, and                   *)
(* total_messages_processed the sum of message_count over the handles      *)
(* registered now (the publishes of a handle that was unregistered or      *)
(* replaced are no longer counted).                                        *)
(***************************************************************************)
C15_Statistics ==
    LET stats == get_bus_statistics
    IN  /\ stats.is_active = is_active
        /\ stats.total_registered_tabs = Cardinality(DictKeys(registered_tabs))
        /\ stats.total_subscriptions =
              Cardinality({pair \in DictKeys(subscription_map) \X DataTypes :
                              ListHas(Subscriptions(pair[1]), pair[2])})
        /\ stats.message_history_size =
              Cardinality({message_history[i].timestamp : i \in DOMAIN message_history})
        /\ stats.active_filters = Cardinality(DictKeys(data_filters))
        /\ stats.total_messages_processed =
              SetSum([t \in DictKeys(registered_tabs) |-> CountOf(registered_tabs, t)],
                     DictKeys(registered_tabs))

\* a tab that had published was unregistered while another tab that had
\* published stayed: the total is the count of the tab that stayed
C15_Witness ==
    /\ last.op = "unregister_tab"
    /\ last.ret = "True"
    /\ now >= 2
    /\ get_bus_statistics.total_registered_tabs = 1
    /\ get_bus_statistics.total_messages_processed = 1
    /\ get_bus_statistics.message_history_size = 2

(***************************************************************************)
(* C16. While a tab id stays registered, no call makes the message_count   *)
(* reported for it smaller (not a publish, a subscription change, a filter *)
(* change nor a re-registration of the id), and an accepted publish from   *)
(* the id makes it larger by exactly one.                                  *)
(***************************************************************************)
C16_MessageCountMonotonic ==
    [][\A tab_id \in TabIds :
          (DictHas(registered_tabs, tab_id) /\ DictHas(registered_tabs', tab_id)) =>
             /\ CountOf(registered_tabs', tab_id) >= CountOf(registered_tabs, tab_id)
             /\ (Called("publish_data") /\ last'.id = tab_id /\ last'.ret = "True") =>
                   CountOf(registered_tabs', tab_id) =
                      CountOf(registered_tabs, tab_id) + 1]_vars

\* ---------------------------------------------------------------------
\* C17

\* the pages of a strip, as a set
PagesOf(strip) == {tab_widgets[strip].pages[i] : i \in 1..Len(tab_widgets[strip].pages)}

DragEdges ==
    {<<"NONE", "PREPARING">>,
     <<"PREPARING", "REORDERING">>, <<"PREPARING", "DETACHING">>,
     <<"REORDERING", "DETACHING">>, <<"DETACHING", "REORDERING">>,
     <<"REORDERING", "COMPLETING">>, <<"DETACHING", "COMPLETING">>,
     <<"COMPLETING", "NONE">>}

\* C18: the drag state of a strip only moves along the edges
\* NONE->PREPARING, PREPARING->REORDERING or DETACHING,
\* REORDERING<->DETACHING, REORDERING or DETACHING->COMPLETING and
\* COMPLETING->NONE: every step of the state during a handler is one of
\* them, and COMPLETING is never entered from PREPARING
C18_DragEdges ==
    \A i \in 1..(Len(event.states) - 1) :
        <<event.states[i], event.states[i + 1]>> \in DragEdges

\* ---------------------------------------------------------------------
\* C19

\* the strips whose tab bar holds a DragOperation
Dragging == {strip \in Strips : tab_widgets[strip].current_drag # <<>>}

\* C19: at most one DragOperation exists across all tab strips of all
\* windows, and while one exists it is the one held in
\* GlobalDragManager.active_drag
C19_SingleGlobalDrag ==
    /\ Cardinality(Dragging) <= 1
    /\ \A strip \in Dragging : active_drag = tab_widgets[strip].current_drag

\* ---------------------------------------------------------------------
\* C20

\* C20: when the pointer is released while the drag is REORDERING, the
\* dragged tab is removed and reinserted in the same strip at the target
\* index computed from the release position (as reorder_tabs moves a tab
\* to an index); the strip keeps the same set of tabs and its first tab
C20_ReorderOnRelease ==
    [][\A strip \in Strips :
          (/\ event'.op = "mouseReleaseEvent"
           /\ event'.strip = strip
           /\ event'.states # <<>>
           /\ Head(event'.states) = "REORDERING") =>
             LET drag == tab_widgets[strip].current_drag[1]
                 moved == reorder_tabs(Shell, strip, drag.source_tab_index, pointer.slot)
             IN  /\ tab_widgets'[strip].pages = moved.tab_widgets[strip].pages
                 /\ {tab_widgets'[strip].pages[i] :
                        i \in 1..Len(tab_widgets'[strip].pages)} = PagesOf(strip)
                 /\ tab_widgets'[strip].pages[1] = tab_widgets[strip].pages[1]]_vars

\* ---------------------------------------------------------------------
\* C21

\* the windows that exist
Created(ws) == {w \in WindowIds : ws[w].exists}

\* the release that ends a drag of strip in state before
Released(strip, before) ==
    /\ event'.op = "mouseReleaseEvent"
    /\ event'.strip = strip
    /\ event'.states = <<before, "COMPLETING", "NONE">>

\* what a detach of the dragged tab of the main strip leaves: one new
\* window, registered with the hierarchy, that holds the tab alone, and a
\* main strip without it
DetachedFromMain ==
    LET drag == tab_widgets[Main].current_drag[1]
        page == widget(Shell, Main, drag.source_tab_index)
    IN  /\ page # Home
        /\ Cardinality(Created(windows') \ Created(windows)) = 1
        /\ \A w \in Created(windows') \ Created(windows) :
              /\ ListHas(window_hierarchy'.detached_windows, w)
              /\ tab_widgets'[w].pages = <<page>>
        /\ tab_widgets'[Main].pages =
              SelectSeq(tab_widgets[Main].pages, LAMBDA p : p # page)
        /\ Len(tab_widgets'[Main].pages) = Len(tab_widgets[Main].pages) - 1

\* what _reattach_current_tab of a window of the main strip leaves: the
\* tab is back at the end of the main strip, which has one tab more
ReattachedToMain ==
    \A w \in WindowIds :
        (/\ event'.op = "_reattach_current_tab"
         /\ event'.strip = w
         /\ windows[w].parent_tab_widget = <<Main>>) =>
            /\ Len(tab_widgets'[Main].pages) = Len(tab_widgets[Main].pages) + 1
            /\ Len(tab_widgets'[w].pages) = Len(tab_widgets[w].pages) - 1
            /\ \E i \in 0..(count(Shell, w) - 1) :
                  /\ tab_widgets'[Main].pages =
                        Append(tab_widgets[Main].pages, widget(Shell, w, i))
                  /\ tab_widgets'[w].pages = removeTab(Shell, w, i).tab_widgets[w].pages

\* C21 as it is written: every release that ends a drag of the main strip
\* in DETACHING (PREPARING -> DETACHING -> COMPLETING) yields exactly one new
\* detached window, registered with the window hierarchy, that contains the
\* tab, and the main strip no longer contains it; reattaching a tab from
\* the window returns it to the main strip, whose count is restored
C21_DetachingDetaches ==
    [][/\ Released(Main, "DETACHING") => DetachedFromMain
       /\ ReattachedToMain]_vars

\* C21: the same for a release outside the tab bar that raises nothing:
\* one new registered window holds the tab, the main strip has
\* lost it, and _reattach_current_tab from the window puts it back, the
\* count of the main strip going down by one and up by one
C21_DragRoundTrip ==
    [][/\ (Released(Main, "DETACHING") /\ ~pointer.within /\ ~event'.raised)
            => DetachedFromMain
       /\ ReattachedToMain]_vars

\* a tab dragged out of the main strip into window 1 has just been
\* reattached from it: the main strip holds it again, after the Home tab
C21_Witness ==
    /\ event.op = "_reattach_current_tab"
    /\ event.strip = 1
    /\ windows[1].window_closed = <<Main>>
    /\ windows[1].parent_tab_widget = <<Main>>
    /\ tab_widgets[1].pages = <<>>
    /\ count(Shell, Main) >= 2

(***************************************************************************)
(* C22: no tab is lost                                                     *)
(***************************************************************************)

\* the places that hold a page: a strip and the index of the page in it
Holders(tws, page) ==
    {place \in Strips \X (1..(MaxTabs + 1)) :
        /\ place[2] <= Len(tws[place[1]].pages)
        /\ tws[place[1]].pages[place[2]] = page}

\* the pages some strip holds
Held_pages(tws) == {page \in 0..MaxTabs : Holders(tws, page) # {}}

\* the handlers that move tabs between strips or inside one
MovesTabs(op) ==
    op \in {"mouseReleaseEvent", "_reattach_current_tab", "_reattach_all_tabs",
            "dropEvent"}

\* C22 as stated, violated: after a detach, reattach, reorder or drop,
\* whether it completed or raised, every page that a strip held before is
\* held by exactly one strip.  A detach whose window creation raises has
\* already removed the tab from its strip, so no strip holds it any more.
C22_NoTabLost ==
    [][MovesTabs(event'.op) =>
          \A page \in Held_pages(tab_widgets) :
             Cardinality(Holders(tab_widgets', page)) = 1]_vars

\* C22, the part that holds: a detach, reattach, reorder or drop in which
\* nothing raised leaves every page held by exactly one strip
C22_NoTabLostUnlessRaised ==
    [][(MovesTabs(event'.op) /\ ~event'.raised) =>
          \A page \in Held_pages(tab_widgets) :
             Cardinality(Holders(tab_widgets', page)) = 1]_vars

\* a release has detached a tab into window 1 without raising
C22_Witness ==
    /\ event.op = "mouseReleaseEvent"
    /\ ~event.raised
    /\ event.states = <<"DETACHING", "COMPLETING", "NONE">>
    /\ Len(tab_widgets[1].pages) = 1
    /\ Visible(1)

(***************************************************************************)
(* C23: release over a foreign strip                                       *)
(***************************************************************************)

\* a release on strip has ended a drag while the pointer was over the
\* visible strip target, and nothing raised
ReleasedOver(strip, target) ==
    /\ event'.op = "mouseReleaseEvent"
    /\ event'.strip = strip
    /\ Len(event'.states) = 3
    /\ ~event'.raised
    /\ pointer.over = <<target>>

\* C23 as stated, violated: a tab released over a foreign strip ends up in
\* that strip, no window is created, and a detached source window left
\* without tabs is closed and leaves the list of the hierarchy.  The
\* release looks at the own tab bar only: over a foreign strip it detaches
\* the tab into a new window like any release outside the bar.
C23_DropIntoForeignStrip ==
    [][\A strip \in Strips, target \in Strips :
          ReleasedOver(strip, target) =>
             LET drag == tab_widgets[strip].current_drag[1]
                 page == widget(Shell, strip, drag.source_tab_index)
             IN  /\ ListHas(tab_widgets'[target].pages, page)
                 /\ Created(windows') = Created(windows)
                 /\ (strip # Main /\ tab_widgets'[strip].pages = <<>>) =>
                       /\ ~windows'[strip].visible
                       /\ ~ListHas(window_hierarchy'.detached_windows, strip)]_vars

\* what the release over a foreign strip does: the foreign strip is left
\* as it was, and the tab is in a new window of its own
C23_ReleaseOverStripDetaches ==
    [][\A strip \in Strips, target \in Strips :
          ReleasedOver(strip, target) =>
             LET drag == tab_widgets[strip].current_drag[1]
                 page == widget(Shell, strip, drag.source_tab_index)
             IN  /\ tab_widgets'[target].pages = tab_widgets[target].pages
                 /\ \E w \in Created(windows') \ Created(windows) :
                       tab_widgets'[w].pages = <<page>>]_vars

\* a tab of the main strip was released over the strip of window 1 and is
\* now alone in window 2
C23_Witness ==
    /\ event.op = "mouseReleaseEvent"
    /\ event.strip = Main
    /\ event.states = <<"DETACHING", "COMPLETING", "NONE">>
    /\ ~event.raised
    /\ Visible(1)
    /\ Len(tab_widgets[1].pages) = 1
    /\ Visible(2)
    /\ Len(tab_widgets[2].pages) = 1

(***************************************************************************)
(* C24: a release leaves no drag behind                                    *)
(***************************************************************************)

\* C24: after every release the tab bar has handled, whether the
\* completion went through or raised, the drag slot of the strip is empty
\* (so no DragOperation in REORDERING, DETACHING or COMPLETING is left) and
\* no preview of the strip is on screen
C24_ReleaseCleansUp ==
    [][event'.op = "mouseReleaseEvent" =>
          /\ tab_widgets'[event'.strip].current_drag = <<>>
          /\ ~tab_widgets'[event'.strip].preview_shown]_vars

\* a release on the main strip has just ended a DETACHING drag, whose
\* preview was on screen, with an exception
C24_Witness ==
    /\ event.op = "mouseReleaseEvent"
    /\ event.strip = Main
    /\ event.raised
    /\ event.states = <<"DETACHING", "COMPLETING", "NONE">>
    /\ tab_widgets[Main].current_drag = <<>>

(***************************************************************************)
(* C25: initiate_application_shutdown is idempotent                        *)
(***************************************************************************)

\* how many times a step was taken
Taken(log, step) == Cardinality({i \in DOMAIN log : log[i].step = step})

\* C25: the flag, once set, stays set; a call that finds it set takes no
\* step at all; and shutdown_initiated is emitted, the session serialized
\* by the hierarchy and quit() called at most once, whether the calls come
\* from the wrapped close handler, from Notebook.closeEvent or directly
C25_ShutdownOnce ==
    [][/\ window_hierarchy.shutdown_in_progress =>
             /\ window_hierarchy'.shutdown_in_progress
             /\ app'.log = app.log
       /\ \A step \in {"shutdown_initiated", "save_complete_application_state",
                         "all_windows_closing", "shutdown_global_data_bus", "quit"} :
             Taken(app'.log, step) <= 1]_vars

\* the shutdown has run, and initiate_application_shutdown was then called
\* again and returned at once
C25_Witness ==
    /\ event.op = "initiate_application_shutdown"
    /\ event.states = <<"returned">>
    /\ window_hierarchy.shutdown_in_progress
    /\ Taken(app.log, "shutdown_initiated") = 1
    /\ Taken(app.log, "quit") = 1

(***************************************************************************)
(* C26: the order of the shutdown sequence                                 *)
(***************************************************************************)

\* the detached windows that are open and registered with the hierarchy
OpenRegistered ==
    {w \in WindowIds : /\ windows[w].visible
                       /\ ListHas(window_hierarchy.detached_windows, w)}

\* C26: a shutdown takes its steps in this order: shutdown_initiated is
\* emitted; the session is serialized, every detached window that was open
\* and registered before the shutdown being so still; all_windows_closing
\* is emitted; close() is called on every window of the hierarchy's list,
\* in the order of the list; the bus is shut down; quit() is called
C26_ShutdownOrder ==
    [][(app.log = <<>> /\ app'.log # <<>>) =>
          LET log == app'.log
              list == window_hierarchy.detached_windows
          IN  /\ Len(log) = Len(list) + 5
              /\ log[1].step = "shutdown_initiated"
              /\ log[2].step = "save_complete_application_state"
              /\ log[2].open = OpenRegistered
              /\ log[3].step = "all_windows_closing"
              /\ log[3].open = OpenRegistered
              /\ \A i \in 1..Len(list) :
                    /\ log[3 + i].step = "close"
                    /\ log[3 + i].window = list[i]
              /\ log[Len(log) - 1].step = "shutdown_global_data_bus"
              /\ log[Len(log) - 1].open =
                    {w \in OpenRegistered : \E i \in DOMAIN log : log[i].window = w /\ ~log[i].ok}
              /\ log[Len(log)].step = "quit"
              /\ app'.quit]_vars

\* a shutdown has run while window 1 was open with a tab: the session was
\* saved with the window open, then the window was closed
C26_Witness ==
    /\ Len(app.log) = 6
    /\ app.log[2].step = "save_complete_application_state"
    /\ app.log[2].ok
    /\ app.log[2].open = {1}
    /\ app.log[4].step = "close"
    /\ app.log[4].ok
    /\ ~windows[1].visible
    /\ app.quit

(***************************************************************************)
(* C27: a shutdown reaches quit() whatever fails                           *)
(***************************************************************************)

\* the steps of a log that are about window w
StepsFor(log, w) == {i \in DOMAIN log : log[i].step = "close" /\ log[i].window = w}

\* C27: every shutdown, whichever of its steps raise (the save, the close
\* of any of the windows, the shutdown of the bus), calls close() on every
\* window of the hierarchy's list, leaves closed every one whose close()
\* did not raise, tries the shutdown of the bus, which is inactive
\* afterwards unless that step raised, and ends with quit()
C27_ShutdownReachesQuit ==
    [][(app.log = <<>> /\ app'.log # <<>>) =>
          LET log == app'.log
              list == window_hierarchy.detached_windows
          IN  /\ \A i \in DOMAIN list :
                    /\ StepsFor(log, list[i]) # {}
                    /\ (\A s \in StepsFor(log, list[i]) : log[s].ok) =>
                          ~windows'[list[i]].visible
              /\ Taken(log, "shutdown_global_data_bus") = 1
              /\ log[Len(log) - 1].step = "shutdown_global_data_bus"
              /\ log[Len(log) - 1].ok => ~is_active'
              /\ log[Len(log)].step = "quit"
              /\ app'.quit]_vars

\* a shutdown has run in which the save, the close of window 1 and the
\* shutdown of the bus raised: window 2 was closed all the same, and quit()
\* was called
C27_Witness ==
    /\ Len(app.log) = 7
    /\ ~app.log[2].ok
    /\ app.log[4] = [step |-> "close", ok |-> FALSE, window |-> 1, open |-> {1, 2}]
    /\ app.log[5] = [step |-> "close", ok |-> TRUE, window |-> 2, open |-> {1, 2}]
    /\ ~app.log[6].ok
    /\ windows[1].visible
    /\ ~windows[2].visible
    /\ is_active
    /\ app.quit

(***************************************************************************)
(* C28: a detached window closes                                           *)
(***************************************************************************)

\* window w was open before the step and is closed after it
Closes(w) == windows[w].visible /\ ~windows'[w].visible

\* what C28 says of a window that closes: it has left the list of the
\* hierarchy; outside a shutdown the main strip holds the tabs it had, and
\* in a shutdown the main strip is as it was
ClosedAsSpecified(w) ==
    /\ ~ListHas(window_hierarchy'.detached_windows, w)
    /\ IF window_hierarchy'.shutdown_in_progress
       THEN tab_widgets'[Main].pages = tab_widgets[Main].pages
       ELSE \A page \in PagesOf(w) : ListHas(tab_widgets'[Main].pages, page)

\* C28 as stated, violated: every detached window that closes is removed
\* from the hierarchy's list, with its tabs reattached to the main strip
\* if and only if no shutdown is in progress.  A window that closes
\* itself after its last tab was reattached from its menu emits no
\* window_closed and stays in the list.
C28_WindowClosed ==
    [][\A w \in WindowIds : Closes(w) => ClosedAsSpecified(w)]_vars

\* C28 for the windows that hold a tab when they close (closed by the
\* user or by the shutdown): this holds
C28_WindowClosedWithTabs ==
    [][\A w \in WindowIds :
          (Closes(w) /\ event'.op \notin {"_reattach_current_tab", "_reattach_all_tabs"})
             => ClosedAsSpecified(w)]_vars

\* window 1 has closed itself after its only tab was reattached from its
\* menu, and the hierarchy still lists it
C28_Witness ==
    /\ event.op = "_reattach_current_tab"
    /\ event.strip = 1
    /\ ~windows[1].visible
    /\ ListHas(window_hierarchy.detached_windows, 1)

(***************************************************************************)
(* C29: the session round trip                                             *)
(***************************************************************************)

\* a fresh hierarchy: the main window with its Home tab, no detached window
Fresh ==
    [tab_widgets |-> [strip \in Strips |->
                        IF strip = Main
                        THEN [DetachableTabWidget EXCEPT !.pages = <<Home>>]
                        ELSE DetachableTabWidget],
     windows |-> [w \in WindowIds |-> NoWindow],
     window_hierarchy |-> [main_window |-> <<Main>>, detached_windows |-> <<>>,
                           shutdown_in_progress |-> FALSE]]

\* the numbers of tabs of the open detached windows of a hierarchy, in the
\* order in which the hierarchy lists them
TabCounts(sh) ==
    LET open == SelectSeq(sh.window_hierarchy.detached_windows,
                          LAMBDA w : sh.windows[w].visible)
    IN  [i \in DOMAIN open |-> Len(sh.tab_widgets[open[i]].pages)]

\* the session saved from the hierarchy, loaded into a fresh one, gives
\* as many tabs in the main window, as many detached windows, and as many
\* tabs in each, in the same order
RoundTrip ==
    LET loaded == restored_session(Fresh, save_session(Shell), 1).sh
    IN  /\ Len(loaded.tab_widgets[Main].pages) = Len(tab_widgets[Main].pages)
        /\ TabCounts(loaded) = TabCounts(Shell)

\* C29 as stated, violated: before a shutdown, the session saved from any
\* hierarchy and loaded into a fresh one reproduces its windows and the
\* number of tabs of each.  A window detached from a detached window is in
\* the list of that window's strip, which save_session does not walk.
C29_SessionRoundTrip == ~window_hierarchy.shutdown_in_progress => RoundTrip

\* C29 for the hierarchies whose windows were all detached from the main
\* strip: this holds
C29_RoundTripFromMain ==
    (/\ ~window_hierarchy.shutdown_in_progress
     /\ \A w \in WindowIds :
           windows[w].exists => windows[w].parent_tab_widget = <<Main>>)
       => RoundTrip

\* two windows detached from the main strip are open, with a tab each
C29_Witness ==
    /\ \A w \in {1, 2} : /\ windows[w].visible
                          /\ windows[w].parent_tab_widget = <<Main>>
                          /\ Len(tab_widgets[w].pages) = 1
    /\ ~window_hierarchy.shutdown_in_progress

(***************************************************************************)
(* C30: the legacy session                                                 *)
(***************************************************************************)

\* load_session has just run on a file of the given kind
Loaded(file) ==
    /\ event'.op = "load_session"
    /\ event'.states[1] = file

\* the entries of the file that was loaded which are not the Home tab
NonHomeEntries == SelectSeq(Tail(event'.states), LAMBDA t : t # "home")

\* C30 as stated, violated: after the load of a bare array of tab states,
\* or of a file of another version, the main strip holds the Home tab and
\* one new tab for every entry that is not the Home tab, and no detached
\* window was created.  The bare array never reaches the legacy loader, and
\* the legacy loader fails on a dict: no entry is loaded.
C30_LegacyLoad ==
    [][\A file \in {"list", "other_version"} :
          Loaded(file) =>
             /\ Len(tab_widgets'[Main].pages) = 1 + Len(NonHomeEntries)
             /\ created_tabs' = created_tabs + Len(NonHomeEntries)
             /\ Created(windows') = Created(windows)]_vars

\* what the load of such a file does: no tab and no window is created; a
\* bare array leaves the shell as it was, a file of another version
\* leaves the main strip with the Home tab alone
C30_LegacyLoadsNothing ==
    [][/\ Loaded("list") =>
             UNCHANGED <<tab_widgets, windows, window_hierarchy, created_tabs>>
       /\ Loaded("other_version") =>
             /\ tab_widgets'[Main].pages = <<Home>>
             /\ UNCHANGED <<windows, window_hierarchy, created_tabs>>]_vars

(***************************************************************************)
(* C31: a tab entry whose restoration fails                                *)
(***************************************************************************)

\* load_session has just run on this file
LoadedSession(session) ==
    /\ event'.op = "load_session"
    /\ event'.states = session_entries(session)

\* the entries of a tab list whose restoration does not fail
Restorable(tabs_data) == SelectSeq(tabs_data, LAMBDA t : t \notin Failing)

\* the tab counts of the windows that hold the restorable entries of the
\* file's windows
RECURSIVE RestorableCounts(_)
RestorableCounts(detached_windows_data) ==
    IF detached_windows_data = <<>>
    THEN <<>>
    ELSE (IF Restorable(Head(detached_windows_data)) = <<>>
          THEN <<>>
          ELSE <<Len(Restorable(Head(detached_windows_data)))>>)
         \o RestorableCounts(Tail(detached_windows_data))

\* C31 as stated, violated: after the load of a session file of this
\* version, the main strip holds the Home tab and one tab for every entry of
\* the main window that is not the Home tab and whose restoration does not
\* fail, and the detached windows hold one tab for every entry of theirs
\* whose restoration does not fail.  A failing entry of a detached window
\* leaves the whole window out, and an entry that is not a dict ends the
\* load.
C31_FailedTabSkipped ==
    [][\A session \in Sessions :
          LoadedSession(session) /\ session.file = "current" =>
             /\ Len(tab_widgets'[Main].pages)
                   = 1 + Len(SelectSeq(Restorable(session.main), LAMBDA t : t # "home"))
             /\ TabCounts(Shell') = RestorableCounts(session.detached)]_vars

\* the windows of the file none of whose entries fails, by their tab counts
IntactCounts(detached_windows_data) ==
    LET intact == SelectSeq(detached_windows_data,
                            LAMBDA t : t # <<>> /\ Restorable(t) = t)
    IN  [i \in DOMAIN intact |-> Len(intact[i])]

\* what the load does with a failing entry: when create_tab_from_state
\* raises for an entry of the main window, every other entry of the main
\* window and every window without a failing entry is restored; a window
\* with a failing entry is left out whole; an entry of the main window that
\* is not a dict ends the load, with the main strip as far as it was
\* restored and no detached window
C31_FailedTabSkipsItsWindow ==
    [][\A session \in Sessions :
          LoadedSession(session) /\ session.file = "current" =>
             IF event'.raised
             THEN /\ \E i \in DOMAIN session.main : session.main[i] = "not_a_dict"
                  /\ TabCounts(Shell') = <<>>
             ELSE /\ Len(tab_widgets'[Main].pages)
                        = 1 + Len(SelectSeq(Restorable(session.main),
                                            LAMBDA t : t # "home"))
                  /\ TabCounts(Shell') = IntactCounts(session.detached)]_vars

\* a load has skipped a failing entry of the main window and restored the
\* entry after it
C31_Witness ==
    /\ event.op = "load_session"
    /\ Len(event.states) >= 3
    /\ event.states[3] = "raises"
    /\ Len(tab_widgets[Main].pages) = 2

(***************************************************************************)
(* C32: the tab ids                                                        *)
(***************************************************************************)

\* the live tabs that are on the bus: the pages of the strips of the open
\* windows whose widget has a tab_id
LiveTabs == {page \in hosted(Shell) : notebook.widgets[page].tab_id # <<>>}

\* C32 as stated, violated: no two live bus-enabled tabs have the same
\* tab_id, and no tab widget ever changes its tab_id.  A tab restored with
\* the tab_id of its state leaves the counter where it was, so the next tab
\* of that type made by new_tab gets the same id; two tabs of one type made
\* in a detached window within one second get the same id.
C32_TabIdsDiffer ==
    /\ [](\A page \in LiveTabs, other \in LiveTabs :
             page # other =>
                notebook.widgets[page].tab_id # notebook.widgets[other].tab_id)
    /\ [][\A page \in DOMAIN notebook.widgets :
             notebook.widgets'[page].tab_id = notebook.widgets[page].tab_id]_vars

\* the part that holds: a tab widget keeps its tab_id, wherever it is
\* moved to, and loses no registration by being moved
C32_TabIdKept ==
    [][\A page \in DOMAIN notebook.widgets :
          notebook.widgets'[page] = notebook.widgets[page]]_vars

\* two live tabs have one tab_id, one of them restored from a session
C32_Witness ==
    \E page \in LiveTabs, other \in LiveTabs :
        /\ page # other
        /\ notebook.widgets[page].tab_id = notebook.widgets[other].tab_id

(***************************************************************************)
(* C33: the drag threshold                                                 *)
(***************************************************************************)

\* this step is a pointer-move on the strip's bar, drag_distance away from
\* the press position
Moved(strip, drag_distance) ==
    \E within \in BOOLEAN, slot \in 0..(MaxTabs + 1),
       over \in {<<>>} \cup {<<other>> : other \in Strips} :
        mouseMoveEvent(strip, drag_distance >= drag_threshold, within, slot, over)

\* the drag of the strip goes from PREPARING to REORDERING or DETACHING
BecomesActive(strip) ==
    /\ DragStateOf(tab_widgets[strip]) = "PREPARING"
    /\ DragStateOf(tab_widgets'[strip]) \in {"REORDERING", "DETACHING"}

\* no preview is created on the strip
NoPreviewCreated(strip) ==
    tab_widgets'[strip].preview_shown => tab_widgets[strip].preview_shown

\* C33 as stated, violated: a drag becomes active only on a pointer-move,
\* a pointer-down and a pointer-move of at most drag_threshold pixels keep
\* a PREPARING drag as it is and create no preview, and a pointer-down on
\* index 0 creates no DragOperation.  A move of exactly drag_threshold
\* pixels starts the drag.
C33_ThresholdExceeded ==
    [][\A strip \in Strips :
          /\ BecomesActive(strip) => event'.op = "mouseMoveEvent"
          /\ \A drag_distance \in Distances :
                drag_distance <= drag_threshold /\ Moved(strip, drag_distance) =>
                   /\ NoPreviewCreated(strip)
                   /\ ~BecomesActive(strip)
          /\ event'.op = "mousePressEvent" /\ event'.strip = strip =>
                /\ NoPreviewCreated(strip)
                /\ Len(event'.states) = 2 => tab_widgets'[strip].current_drag[1].source_tab_index # 0]_vars

\* what the code does: the same with "less than drag_threshold" for "at
\* most", and a move of drag_threshold pixels or more makes a PREPARING
\* drag active and shows its preview
C33_ThresholdReached ==
    [][\A strip \in Strips :
          /\ BecomesActive(strip) => event'.op = "mouseMoveEvent"
          /\ \A drag_distance \in Distances :
                Moved(strip, drag_distance) =>
                   IF drag_distance < drag_threshold
                   THEN NoPreviewCreated(strip) /\ ~BecomesActive(strip)
                   ELSE DragStateOf(tab_widgets[strip]) = "PREPARING" /\ pointer.left
                           /\ ~pointer.right
                        => BecomesActive(strip) /\ tab_widgets'[strip].preview_shown
          /\ event'.op = "mousePressEvent" /\ event'.strip = strip =>
                /\ NoPreviewCreated(strip)
                /\ Len(event'.states) = 2 => tab_widgets'[strip].current_drag[1].source_tab_index # 0]_vars

\* a move of exactly drag_threshold pixels has started a drag
C33_Witness ==
    \E strip \in Strips :
        /\ event.op = "mouseMoveEvent"
        /\ event.strip = strip
        /\ event.states = <<"PREPARING", "DETACHING">>
        /\ tab_widgets[strip].preview_shown

(***************************************************************************)
(* C34: the external drag mode                                             *)
(***************************************************************************)

\* C34 as stated, violated: while a drag is registered, every registered
\* strip but the source of the drag is in external drag mode and the source
\* is not; while none is registered, no registered strip is in external
\* drag mode.  The strip of a window made while the drag is registered is
\* not put in external drag mode.
C34_ExternalDragMode ==
    \A strip \in all_tab_widgets(Shell) :
        tab_widgets[strip].external_drag_mode
            <=> (active_drag # <<>> /\ strip # active_drag[1].source_widget)

\* what the two methods do: right after register_drag the drag is in the
\* slot, every strip registered then but the source is in external drag
\* mode with that drag, and the source is as it was; right after
\* complete_drag the slot is empty and no strip is in external drag mode
C34_RegisterAndComplete ==
    [][/\ event'.op = "register_drag" =>
             /\ active_drag' # <<>>
             /\ \A strip \in all_tab_widgets(Shell) :
                   IF strip # active_drag'[1].source_widget
                   THEN /\ tab_widgets'[strip].external_drag_mode
                        /\ tab_widgets'[strip].current_external_drag = active_drag'
                   ELSE tab_widgets'[strip] = tab_widgets[strip]
       /\ event'.op \in {"complete_drag", "dropEvent"} =>
             /\ active_drag' = <<>>
             /\ active_drag # <<>> =>
                   \A strip \in Strips : ~tab_widgets'[strip].external_drag_mode]_vars

\* a drag is registered and a strip other than its source is in external
\* drag mode
C34_Witness ==
    /\ active_drag # <<>>
    /\ \E strip \in all_tab_widgets(Shell) :
          /\ strip # active_drag[1].source_widget
          /\ tab_widgets[strip].external_drag_mode

(***************************************************************************)
(* C35: get_message_history(limit)                                         *)
(***************************************************************************)

\* the limits get_message_history is called with
Limits == 0..(MaxCapacity + 1)

\* the n most recent messages of the history, oldest first
MostRecent(n) ==
    SubSeq(message_history, Len(message_history) - n + 1, Len(message_history))

\* C35 as stated, violated: for every limit >= 0 the call returns the
\* min(limit, length) most recent messages, oldest first, which are at most
\* limit messages, and without a limit it returns the whole history.  With
\* limit 0 the slice [-0:] is the whole history.
C35_HistoryLimit ==
    /\ get_message_history(<<>>) = message_history
    /\ \A limit \in Limits :
          /\ Len(get_message_history(<<limit>>)) <= limit
          /\ get_message_history(<<limit>>) =
                MostRecent(IF limit < Len(message_history)
                           THEN limit ELSE Len(message_history))

\* what the call returns: the same for every limit >= 1, and the whole
\* history for limit 0
C35_HistoryLimitPositive ==
    /\ get_message_history(<<>>) = message_history
    /\ get_message_history(<<0>>) = message_history
    /\ \A limit \in Limits \ {0} :
          /\ Len(get_message_history(<<limit>>)) <= limit
          /\ get_message_history(<<limit>>) =
                MostRecent(IF limit < Len(message_history)
                           THEN limit ELSE Len(message_history))

\* the history is full and a limit below its length cuts it
C35_Witness ==
    /\ Len(message_history) = max_message_history
    /\ Len(get_message_history(<<1>>)) = 1
    /\ get_message_history(<<1>>) # message_history

(***************************************************************************)
(* C36: callbacks that call the bus                                        *)
(***************************************************************************)

\* the tabs that are to get a message published by source_tab_id: the
\* others that are registered and subscribed to its type after the call
StillSubscribed(source_tab_id, data_type) ==
    {tab_id \in DictKeys(registered_tabs') \ {source_tab_id} :
        /\ DictHas(registered_tabs, tab_id)
        /\ DictHas(subscription_map, tab_id)
        /\ ListHas(DictGet(subscription_map, tab_id), data_type)
        /\ DictHas(subscription_map', tab_id)}

\* a publish was accepted and one of the callbacks it called has registered
\* or unregistered a tab
Reentered ==
    /\ last'.op = "publish_data"
    /\ accepted' # accepted
    /\ DictKeys(registered_tabs') # DictKeys(registered_tabs)

\* C36 as stated, violated: when a callback registers or unregisters a tab
\* during the routing, no exception leaves the routing, publish_data
\* returns True, and every other tab that is still registered and
\* subscribed to the type has its callback called exactly once.  The change
\* of the subscription map ends the loop with a RuntimeError.
C36_ReentrantRouting ==
    [][Reentered =>
          /\ ~last'.uncaught
          /\ last'.ret = "True"
          /\ \A tab_id \in StillSubscribed(last'.id, last'.arg) :
                TimesInvoked(tab_id)' = 1]_vars

\* what the routing does: a callback that changes the size of the
\* subscription map ends the loop with an exception that no handler of the
\* bus catches, the tabs after it in the map get nothing, and no tab gets
\* the message twice; re-registering a registered tab changes nothing
C36_ReentrantRoutingStops ==
    [][/\ Reentered => last'.uncaught
       /\ last'.op = "publish_data" =>
             /\ last'.uncaught <=> Len(subscription_map') # Len(subscription_map)
             /\ last'.ret = "abort" => last'.uncaught
             /\ \A tab_id \in RoutingTabIds \cup {NewTabId} : TimesInvoked(tab_id)' <= 1]_vars

\* a callback has unregistered its tab during the routing and a tab after
\* it in the subscription map, still subscribed, was not called
C36_Witness ==
    /\ last.op = "publish_data"
    /\ last.uncaught
    /\ \E tab_id \in DictKeys(subscription_map) :
          /\ tab_id # last.id
          /\ ListHas(DictGet(subscription_map, tab_id), last.arg)
          /\ DictHas(registered_tabs, tab_id)
          /\ \A i \in DOMAIN last.invoked : last.invoked[i].tab_id # tab_id

(***************************************************************************)
(* C37: the registered handles and the tabs on screen                      *)
(***************************************************************************)

\* the tab_ids of the live tabs
LiveTabIds == {notebook.widgets[page].tab_id[1] : page \in LiveTabs}

\* the tab widgets that were constructed and are hosted by no strip: closed
\* from the main strip, removed when the session was cleared for a load, or
\* left in a detached window that was closed
Discarded ==
    {page \in DOMAIN notebook.widgets :
        /\ notebook.widgets[page].tab_id # <<>>
        /\ page \notin hosted(Shell)}

\* C37 as stated, violated: every handle registered on the bus is the
\* tab_id of a tab that a strip of an open window hosts, and a publication
\* calls the callback of no other tab.  close_tab and the clearing of the
\* session call removeTab only: the widget is not closed, its closeEvent
\* never runs, and it stays registered and subscribed.
C37_RegisteredTabsAreHosted ==
    /\ [](DictKeys(registered_tabs) \subseteq LiveTabIds)
    /\ [][last'.op = "publish_data" =>
             \A i \in DOMAIN last'.invoked :
                last'.invoked[i].tab_id \in LiveTabIds]_vars

\* what the shell does: every tab widget that was constructed with a tab_id
\* is registered under it, hosted or not, and no step of the shell takes a
\* handle or a subscription away from the bus
C37_RegistrationsOutliveTabs ==
    /\ [](\A page \in DOMAIN notebook.widgets :
             notebook.widgets[page].tab_id # <<>> =>
                DictHas(registered_tabs, notebook.widgets[page].tab_id[1]))
    /\ [][/\ DictKeys(registered_tabs) \subseteq DictKeys(registered_tabs')
          /\ \A tab_id \in DictKeys(subscription_map) :
                /\ DictHas(subscription_map', tab_id)
                /\ \A i \in DOMAIN DictGet(subscription_map, tab_id) :
                      ListHas(DictGet(subscription_map', tab_id),
                              DictGet(subscription_map, tab_id)[i])]_vars

\* a tab that was closed, whose tab_id no live tab has, was called by a
\* publication of a live tab
C37_Witness ==
    /\ last.op = "publish_data"
    /\ \E page \in Discarded :
          /\ notebook.widgets[page].tab_id[1] \notin LiveTabIds
          /\ \E i \in DOMAIN last.invoked :
                last.invoked[i].tab_id = notebook.widgets[page].tab_id[1]

(***************************************************************************)
(* C38: the session file after the exit sequence                           *)
(***************************************************************************)

\* the exit sequence that began with the close of the main window is over:
\* app.exec() has returned and the finally clause has saved
ExitedByClose == app.exited /\ event.op = "closeEvent"

\* the detached windows that were open when the shutdown began
OpenAtClose ==
    UNION {app.log[i].open :
              i \in {j \in DOMAIN app.log : app.log[j].step = "shutdown_initiated"}}

\* the tab states the session file holds for its detached windows
DescribedDetached(file) == {file.detached[i] : i \in DOMAIN file.detached}

\* C38 as stated, violated: when the exit sequence is over, the session
\* file holds the tabs of the main window, an entry for every detached
\* window that was open when the main window was closed, and in it the
\* tabs of that window.  The two saves of the session manager run after the
\* detached windows were closed, and a window that closes takes itself off
\* the list of the main strip, the list the session manager walks.
C38_ExitSessionFile ==
    ExitedByClose =>
        /\ app.file # <<>>
        /\ app.file[1].main = get_tab_states(Shell, Main)
        /\ Len(app.file[1].detached) >= Cardinality(OpenAtClose)
        /\ \A w \in OpenAtClose :
              get_tab_states(Shell, w) \in DescribedDetached(app.file[1])

\* what the exit sequence leaves: the file the session manager writes from
\* the shell as it is after the closing of the windows, with the tabs of
\* the main window and, of the detached windows, only those that are still
\* on the list of the main strip (a window is taken off it when it closes
\* with a tab in it); no step of the sequence moves or removes a tab
C38_ExitFileAfterClosing ==
    /\ [](app.exited =>
             /\ app.file = <<save_session(Shell)>>
             /\ app.file[1].main = get_tab_states(Shell, Main)
             /\ Len(app.file[1].detached) = Len(tab_widgets[Main].detached_windows)
             /\ \A w \in OpenAtClose :
                   (/\ get_tab_states(Shell, w) # <<>>
                    /\ ~windows[w].visible)
                      => get_tab_states(Shell, w) \notin DescribedDetached(app.file[1]))
    /\ [][app.quit' =>
             \A strip \in Strips : tab_widgets'[strip].pages = tab_widgets[strip].pages]_vars

\* the main window was closed with a detached window open that held a tab,
\* the exit sequence is over, and the file has no entry with that tab
C38_Witness ==
    /\ ExitedByClose
    /\ \E w \in OpenAtClose :
          /\ get_tab_states(Shell, w) # <<>>
          /\ get_tab_states(Shell, w) \notin DescribedDetached(app.file[1])

(***************************************************************************)
(* C39: the tables of the bus and the list of the hierarchy                *)
(***************************************************************************)

\* a list holds no element twice
NoDuplicates(list) ==
    \A i \in DOMAIN list, j \in DOMAIN list : list[i] = list[j] => i = j

=============================================================================
